---- MODULE Spec2Model ----
(***************************************************************************)
(* A model of the AI-portfolio dashboard: the sandbox allocation blender   *)
(* (the activePortfolio memo of src/App.tsx), the sandbox handlers of the  *)
(* App component with their asynchronous completions, and the simulated    *)
(* market-data service with its process-wide price cache.                  *)
(*                                                                         *)
(* JavaScript numbers are modelled as exact rationals <<n, d>> (d > 0, in  *)
(* lowest terms), so "within rounding tolerance" in the specification      *)
(* reads as equality here.  An optional field (T | undefined | null) is a  *)
(* sequence of length at most one: None or Some(v).                        *)
(***************************************************************************)
EXTENDS Integers, Sequences, FiniteSets, TLC

(***************************************************************************)
(* Numbers                                                                 *)
(***************************************************************************)
RECURSIVE GCD(_, _)
GCD(a, b) == IF b = 0 THEN a ELSE GCD(b, a % b)

Abs(n) == IF n < 0 THEN -n ELSE n

\* The rational n/d in lowest terms with a positive denominator.
R(n, d) ==
    LET g == GCD(Abs(n), Abs(d))
        s == IF d < 0 THEN -1 ELSE 1
    IN  <<(s * n) \div g, (s * d) \div g>>

Num(i) == <<i, 1>>

RAdd(a, b) ==
    LET g == GCD(a[2], b[2])
    IN  R(a[1] * (b[2] \div g) + b[1] * (a[2] \div g), (a[2] \div g) * b[2])

RNeg(a) == <<-a[1], a[2]>>

RSub(a, b) == RAdd(a, RNeg(b))

RMul(a, b) ==
    LET g1 == GCD(Abs(a[1]), b[2])
        g2 == GCD(Abs(b[1]), a[2])
    IN  R((a[1] \div g1) * (b[1] \div g2), (a[2] \div g2) * (b[2] \div g1))

\* a / b for b # 0
RDiv(a, b) == RMul(a, R(b[2], b[1]))

RLt(a, b) == a[1] * b[2] < b[1] * a[2]

RLe(a, b) == a[1] * b[2] <= b[1] * a[2]

\* Math.max and Math.min
MathMax(a, b) == IF RLt(a, b) THEN b ELSE a

MathMin(a, b) == IF RLt(b, a) THEN b ELSE a

MathAbs(a) == <<Abs(a[1]), a[2]>>

None == <<>>

Some(v) == <<v>>

(***************************************************************************)
(* The allocation blender: the activePortfolio memo                        *)
(***************************************************************************)
\* values.reduce((acc, v) => acc + v, acc), left to right.
RECURSIVE Reduce(_, _)
Reduce(values, acc) ==
    IF values = << >> THEN acc
    ELSE Reduce(Tail(values), RAdd(acc, Head(values)))

Allocations(assets) == [i \in 1..Len(assets) |-> assets[i].allocation]

totalUserAllocation(userAssets) == Reduce(Allocations(userAssets), Num(0))

scaleFactorNoFloor(userAssets) ==
    RDiv(RSub(Num(100), totalUserAllocation(userAssets)), Num(100))

scaleFactor(userAssets) ==
    MathMax(Num(0), RDiv(RSub(Num(100), totalUserAllocation(userAssets)), Num(100)))

updatedBaseAssetsUnscaled(base, userAssets) == base.portfolio

updatedBaseAssets(base, userAssets) ==
    [i \in 1..Len(base.portfolio) |->
        [base.portfolio[i] EXCEPT
            !.allocation = RMul(@, scaleFactor(userAssets))]]

newPortfolioAssets(base, userAssets) ==
    updatedBaseAssets(base, userAssets) \o userAssets

\* asset.x * (asset.allocation / 100) for each asset, in order
WeightedReturns(assets) ==
    [i \in 1..Len(assets) |->
        RMul(assets[i].expectedReturn, RDiv(assets[i].allocation, Num(100)))]

WeightedVolatilities(assets) ==
    [i \in 1..Len(assets) |->
        RMul(assets[i].volatility, RDiv(assets[i].allocation, Num(100)))]

WeightedBetas(assets) ==
    [i \in 1..Len(assets) |->
        RMul(assets[i].beta, RDiv(assets[i].allocation, Num(100)))]

riskScoreUnclamped(weightedBeta) ==
    RAdd(RMul(weightedBeta, Num(5)), R(5, 2))

riskScoreOf(weightedBeta) ==
    MathMax(Num(1), MathMin(Num(10), RAdd(RMul(weightedBeta, Num(5)), R(5, 2))))

metricsOf(assets) ==
    [expectedReturn |-> Reduce(WeightedReturns(assets), Num(0)),
     volatility     |-> Reduce(WeightedVolatilities(assets), Num(0)),
     weightedBeta   |-> Reduce(WeightedBetas(assets), Num(0)),
     riskScore      |-> riskScoreOf(Reduce(WeightedBetas(assets), Num(0)))]

newMetricsBaseOnly(base, userAssets) ==
    metricsOf(updatedBaseAssets(base, userAssets))

newMetrics(base, userAssets) ==
    metricsOf(newPortfolioAssets(base, userAssets))

SandboxSuffix == " (Sandbox Mode)"

\* The memo's result for a base portfolio that exists (App.tsx:95-124).
blendAlways(base, userAssets) ==
    [title     |-> base.title \o SandboxSuffix,
     portfolio |-> newPortfolioAssets(base, userAssets),
     strategy  |-> [base.strategy EXCEPT
                       !.portfolioMetrics = newMetrics(base, userAssets)]]

blendDropsBenchmarks(base, userAssets) ==
    IF Len(userAssets) = 0 THEN base
    ELSE [title     |-> base.title \o SandboxSuffix,
          portfolio |-> newPortfolioAssets(base, userAssets),
          strategy  |-> [base.strategy EXCEPT
                            !.portfolioMetrics = newMetrics(base, userAssets),
                            !.benchmarks = <<>>]]

blend(base, userAssets) ==
    IF Len(userAssets) = 0 THEN base
    ELSE [title     |-> base.title \o SandboxSuffix,
          portfolio |-> newPortfolioAssets(base, userAssets),
          strategy  |-> [base.strategy EXCEPT
                            !.portfolioMetrics = newMetrics(base, userAssets)]]

(***************************************************************************)
(* Data: assets, portfolios, the linked account                            *)
(***************************************************************************)
\* A SuggestedAsset (src/types.ts:8-20); the three optional fields are
\* None when absent.
Asset(ticker, name, sector, allocation, beta, expectedReturn, volatility, rationale) ==
    [ticker         |-> ticker,
     name           |-> name,
     sector         |-> sector,
     allocation     |-> allocation,
     beta           |-> beta,
     expectedReturn |-> expectedReturn,
     volatility     |-> volatility,
     rationale      |-> rationale,
     marketData     |-> None,
     isUserAdded    |-> None,
     purchasePrice  |-> None]

Metrics(expectedReturn, volatility, weightedBeta, riskScore) ==
    [expectedReturn |-> expectedReturn,
     volatility     |-> volatility,
     weightedBeta   |-> weightedBeta,
     riskScore      |-> riskScore]

Portfolio(title, assets, summary, metrics, benchmarks) ==
    [title     |-> title,
     portfolio |-> assets,
     strategy  |-> [summary              |-> summary,
                    conservativeMeasures |-> "Hold bonds.",
                    marketOutlook        |-> "Stable.",
                    portfolioMetrics     |-> metrics,
                    benchmarks           |-> benchmarks]]

Benchmark(name, expectedReturn, volatility) ==
    [name |-> name, expectedReturn |-> expectedReturn, volatility |-> volatility]

\* String.prototype.toUpperCase on the tickers of the model.
toUpperCase(s) ==
    CASE s = "nvda" -> "NVDA"
      [] s = "msft" -> "MSFT"
      [] OTHER      -> s

\* String.prototype.trim on the ticker inputs of the model.
trim(s) ==
    CASE s = " "     -> ""
      [] s = " MSFT" -> "MSFT"
      [] OTHER       -> s

Tickers(assets) == [i \in 1..Len(assets) |-> assets[i].ticker]

(***************************************************************************)
(* The simulated market-data service (src/services/marketDataService.ts)   *)
(***************************************************************************)
\* A Record<string, T> with no keys.
EmptyMap == [t \in {} |-> None]

Put(map, key, value) ==
    [k \in DOMAIN map \cup {key} |-> IF k = key THEN value ELSE map[k]]

\* Math.random() * 500 + 20 for a draw u in [0, 1)
seedPrice(u) == RAdd(RMul(u, Num(500)), Num(20))

\* (Math.random() - 0.5) * 0.05 for a draw u in [0, 1)
fluctuationOf(u) == RMul(RSub(u, R(1, 2)), R(5, 100))

MarketData(currentPrice, newPrice) ==
    [currentPrice       |-> newPrice,
     priceChange        |-> RSub(newPrice, currentPrice),
     priceChangePercent |-> RMul(RDiv(RSub(newPrice, currentPrice), currentPrice), Num(100))]

\* priceCache[ticker] when it is truthy, else the seed: undefined and 0 are
\* both falsy.
previousPrice(cache, ticker, u) ==
    IF ticker \in DOMAIN cache /\ cache[ticker] # Num(0)
    THEN cache[ticker]
    ELSE seedPrice(u)

\* The body of tickers.forEach: draws[i] = <<u_seed, u_fluctuation>> are the
\* Math.random() results of the i-th iteration.
RECURSIVE forEachTicker(_, _, _, _)
forEachTicker(tickers, draws, cache, marketData) ==
    IF tickers = << >>
    THEN [marketData |-> marketData, priceCache |-> cache]
    ELSE LET ticker       == Head(tickers)
             currentPrice == previousPrice(cache, ticker, Head(draws)[1])
             newPrice     == RMul(currentPrice,
                                  RAdd(Num(1), fluctuationOf(Head(draws)[2])))
         IN  forEachTicker(Tail(tickers), Tail(draws),
                           Put(cache, ticker, newPrice),
                           Put(marketData, ticker, MarketData(currentPrice, newPrice)))

\* fetchMarketData after its simulated latency: the returned record and the
\* cache it leaves.
fetchMarketData(tickers, draws, cache) ==
    forEachTicker(tickers, draws, cache, EmptyMap)

(***************************************************************************)
(* State                                                                   *)
(***************************************************************************)
VARIABLES
    \* the App component's state (src/App.tsx:17-35)
    mode, suggestionResult, selectedPortfolioIndex, linkedAccount,
    performanceHistory, userAddedAssets, userProfile, isLoading, isProcessing,
    error, toasts,
    \* the value the activePortfolio memo holds (App.tsx:55-125)
    activePortfolio,
    \* the handlers suspended at an await, each with the values its closure holds
    inflight,
    \* how many asynchronous requests the handlers have started
    requests,
    \* the module-level cache of marketDataService.ts
    priceCache,
    \* fetchMarketData calls in flight and the calls completed, in order
    marketPending, marketLog,
    \* the blender applied to free inputs: base, user-added list, memo result
    blendBase, blendUser, blendOut,
    \* the market-data refresh effect (App.tsx:33-34, 292-317): the displayed
    \* data, the loading flag, whether App is mounted, the effect runs that
    \* returned a cleanup (each with its tickers, isMounted and interval), the
    \* run whose cleanup React still holds (0: none), the fetchAndUpdate calls
    \* suspended at their await, how many were started, the calls that have
    \* settled, and the console.error lines written
    marketData, isMarketDataLoading, mounted, effects, effectCleanup,
    refreshFetches, fetchesStarted, refreshLog, consoleErrors,
    \* calls of the service functions on free inputs, with what they returned
    serviceLog

appVars == <<mode, suggestionResult, selectedPortfolioIndex, linkedAccount,
             performanceHistory, userAddedAssets, userProfile, isLoading,
             isProcessing, error, toasts, activePortfolio, inflight,
             requests>>

marketVars == <<marketPending, marketLog>>

blendVars == <<blendBase, blendUser, blendOut>>

refreshVars == <<marketData, isMarketDataLoading, mounted, effects, effectCleanup,
                 refreshFetches, fetchesStarted, refreshLog, consoleErrors>>

serviceVars == <<serviceLog>>

otherVars == <<refreshVars, serviceVars>>

vars == <<appVars, priceCache, marketVars, blendVars, otherVars>>

(***************************************************************************)
(* The blender on free inputs                                              *)
(***************************************************************************)
MaxBlendAssets == 2

BalancedBase ==
    Portfolio("Balanced Growth Portfolio (Primary)",
              <<Asset("A", "Alpha Corp.", "Technology", Num(60), Num(1), Num(10), Num(15), "core"),
                Asset("B", "Beta Bonds", "Fixed Income", Num(40), R(1, 2), Num(6), Num(8), "ballast")>>,
              "Balanced.", Metrics(R(42, 5), R(61, 5), R(4, 5), Num(6)),
              <<Benchmark("S&P 500", Num(10), Num(18)), Benchmark("Bonds", Num(4), Num(6))>>)

HighBetaBase ==
    Portfolio("Aggressive Growth Alternative",
              <<Asset("H", "Hyper Inc.", "Technology", Num(100), Num(4), Num(14), Num(40), "growth")>>,
              "Aggressive.", Metrics(Num(14), Num(40), Num(4), Num(10)),
              <<Benchmark("S&P 500", Num(10), Num(18))>>)

NegativeBetaBase ==
    Portfolio("Conservative Alternative",
              <<Asset("N", "Inverse Fund", "Diversified Index", Num(100), Num(-2), Num(2), Num(12), "hedge")>>,
              "Hedged.", Metrics(Num(2), Num(12), Num(-2), Num(1)),
              <<Benchmark("Bonds", Num(4), Num(6))>>)

\* What the service may deliver unvalidated: allocations that do not sum to
\* 100 and a risk score outside the 1-10 scale.
SkewedBase ==
    Portfolio("Skewed",
              <<Asset("A", "Alpha Corp.", "Technology", Num(30), Num(1), Num(10), Num(15), "core"),
                Asset("B", "Beta Bonds", "Fixed Income", Num(30), R(1, 2), Num(6), Num(8), "ballast")>>,
              "Skewed.", Metrics(Num(8), Num(12), R(4, 5), Num(12)),
              <<Benchmark("S&P 500", Num(10), Num(18))>>)

BlendBases == {BalancedBase, HighBetaBase, NegativeBetaBase, SkewedBase}

UserAsset(ticker, allocation, beta, expectedReturn, volatility) ==
    [Asset(ticker, ticker \o " Holdings Inc.", "Energy", allocation, beta,
           expectedReturn, volatility,
           "This asset was added by the user for custom analysis.")
        EXCEPT !.isUserAdded = Some(TRUE)]

AssetC == UserAsset("C", Num(20), Num(2), Num(20), Num(30))

BlendUserAssets ==
    {AssetC,
     UserAsset("D", Num(50), R(1, 2), Num(5), Num(10)),
     UserAsset("E", Num(60), R(5, 2), Num(15), Num(30)),
     UserAsset("F", Num(30), Num(-1), Num(7), Num(20)),
     UserAsset("G", Num(49), R(5, 4), Num(10), Num(20))}

MarketIdle ==
    /\ priceCache = EmptyMap
    /\ marketPending = << >>
    /\ marketLog = << >>

AppIdle ==
    /\ mode = "suggestion"
    /\ suggestionResult = None
    /\ selectedPortfolioIndex = 0
    /\ linkedAccount = None
    /\ performanceHistory = None
    /\ userAddedAssets = << >>
    /\ userProfile = None
    /\ isLoading = FALSE
    /\ isProcessing = FALSE
    /\ error = None
    /\ toasts = << >>
    /\ activePortfolio = None
    /\ inflight = {}
    /\ requests = 0

BlendNone ==
    /\ blendBase = None
    /\ blendUser = << >>
    /\ blendOut = None

RefreshIdle ==
    /\ marketData = EmptyMap
    /\ isMarketDataLoading = FALSE
    /\ mounted = TRUE
    /\ effects = << >>
    /\ effectCleanup = 0
    /\ refreshFetches = {}
    /\ fetchesStarted = 0
    /\ refreshLog = << >>
    /\ consoleErrors = 0

ServiceIdle == serviceLog = << >>

OtherIdle == RefreshIdle /\ ServiceIdle

InitBlend ==
    /\ AppIdle
    /\ MarketIdle
    /\ OtherIdle
    /\ blendBase \in BlendBases
    /\ blendUser = << >>
    /\ blendOut = blend(blendBase, blendUser)

\* setUserAddedAssets(prev => [...prev, asset]) and the memo's recomputation.
BlendAppend(asset) ==
    /\ Len(blendUser) < MaxBlendAssets
    /\ blendUser' = Append(blendUser, asset)
    /\ blendOut' = blend(blendBase, blendUser')
    /\ UNCHANGED <<blendBase, appVars, priceCache, marketVars, otherVars>>

\* setUserAddedAssets([]) and the memo's recomputation.
BlendReset ==
    /\ blendUser # << >>
    /\ blendUser' = << >>
    /\ blendOut' = blend(blendBase, blendUser')
    /\ UNCHANGED <<blendBase, appVars, priceCache, marketVars, otherVars>>

NextBlend ==
    \/ \E asset \in BlendUserAssets : BlendAppend(asset)
    \/ BlendReset

SpecBlend == InitBlend /\ [][NextBlend]_vars

(***************************************************************************)
(* Properties of the blender                                               *)
(***************************************************************************)
RECURSIVE SumAllocTo(_, _)
SumAllocTo(assets, n) ==
    IF n = 0 THEN Num(0) ELSE RAdd(SumAllocTo(assets, n - 1), assets[n].allocation)

SumAlloc(assets) == SumAllocTo(assets, Len(assets))

RECURSIVE WeightedSumTo(_, _, _)
WeightedSumTo(assets, field, n) ==
    IF n = 0 THEN Num(0)
    ELSE RAdd(WeightedSumTo(assets, field, n - 1),
              RDiv(RMul(assets[n][field], assets[n].allocation), Num(100)))

Clamp(lo, hi, x) == IF RLt(x, lo) THEN lo ELSE IF RLt(hi, x) THEN hi ELSE x

InRange(lo, hi, x) == RLe(lo, x) /\ RLe(x, hi)

ExpectedScale(T) ==
    IF RLe(Num(100), T) THEN Num(0) ELSE RDiv(RSub(Num(100), T), Num(100))

BlendTotal == SumAlloc(blendUser)

BlendRisk == blendOut.strategy.portfolioMetrics.riskScore

\* C1: for a non-empty user-added list with total allocation T the blended
\* list is the base assets in base order, each with its allocation multiplied
\* by max(0, (100 - T)/100) and nothing else changed, followed by the
\* user-added assets in insertion order, unchanged.
C1_BaseRescaledThenUserAppended ==
    blendUser # << >> =>
        LET n   == Len(blendBase.portfolio)
            out == blendOut.portfolio
        IN  /\ Len(out) = n + Len(blendUser)
            /\ \A i \in 1..n :
                   out[i] = [blendBase.portfolio[i] EXCEPT
                                !.allocation = RMul(blendBase.portfolio[i].allocation,
                                                    ExpectedScale(BlendTotal))]
            /\ \A j \in 1..Len(blendUser) : out[n + j] = blendUser[j]

C1_Witness ==
    /\ blendBase = BalancedBase
    /\ Len(blendUser) = 2
    /\ BlendTotal = Num(70)
    /\ Allocations(blendOut.portfolio) = <<Num(18), Num(12), Num(50), Num(20)>>

\* C2: for a non-empty user-added list the blended expectedReturn, volatility
\* and weightedBeta are the sums over the combined list of attribute times
\* allocation/100, and riskScore is clamp(1, 10, weightedBeta * 5 + 2.5); base
\* A(60, beta 1), B(40, beta 0.5) plus C(20, beta 2) gives 48/32/20, weighted
\* beta 1.04 and risk score 7.7.
C2_MetricsAreWeightedSumsOfCombined ==
    blendUser # << >> =>
        LET out == blendOut.portfolio
            m   == blendOut.strategy.portfolioMetrics
        IN  /\ m.expectedReturn = WeightedSumTo(out, "expectedReturn", Len(out))
            /\ m.volatility = WeightedSumTo(out, "volatility", Len(out))
            /\ m.weightedBeta = WeightedSumTo(out, "beta", Len(out))
            /\ m.riskScore =
                   Clamp(Num(1), Num(10), RAdd(RMul(m.weightedBeta, Num(5)), R(5, 2)))
            /\ (blendBase = BalancedBase /\ blendUser = <<AssetC>>) =>
                   /\ Allocations(out) = <<Num(48), Num(32), Num(20)>>
                   /\ m.weightedBeta = R(104, 100)
                   /\ m.riskScore = R(77, 10)

C2_Witness ==
    /\ blendBase = BalancedBase
    /\ blendUser = <<AssetC>>
    /\ BlendRisk = R(77, 10)

\* C3: identity law: with an empty user-added list the blended portfolio is
\* the base portfolio in every field (title, assets, strategy, metrics).
C3_IdentityOnEmptyUserList ==
    blendUser = << >> =>
        /\ blendOut.title = blendBase.title
        /\ blendOut.portfolio = blendBase.portfolio
        /\ blendOut.strategy = blendBase.strategy
        /\ blendOut = blendBase

C3_Witness ==
    /\ blendUser = << >>
    /\ blendBase = SkewedBase
    /\ blendOut.title = "Skewed"
    /\ BlendRisk = Num(12)

C5_BlendedSum ==
    (blendUser # << >> /\ RLt(BlendTotal, Num(100))) =>
        LET baseSum == SumAlloc(blendBase.portfolio)
            outSum  == SumAlloc(blendOut.portfolio)
        IN  /\ outSum = RAdd(RDiv(RMul(baseSum, RSub(Num(100), BlendTotal)), Num(100)),
                             BlendTotal)
            /\ baseSum = Num(100) => outSum = Num(100)

C5_Witness ==
    /\ Len(blendUser) = 2
    /\ BlendTotal = Num(99)
    /\ SumAlloc(blendBase.portfolio) = Num(100)
    /\ SumAlloc(blendOut.portfolio) = Num(100)

BlendFrame ==
    blendUser # << >> =>
        /\ blendOut.title = blendBase.title \o " (Sandbox Mode)"
        /\ blendOut.strategy.summary = blendBase.strategy.summary
        /\ blendOut.strategy.conservativeMeasures = blendBase.strategy.conservativeMeasures
        /\ blendOut.strategy.marketOutlook = blendBase.strategy.marketOutlook
        /\ blendOut.strategy.benchmarks = blendBase.strategy.benchmarks
        /\ DOMAIN blendOut = DOMAIN blendBase
        /\ DOMAIN blendOut.strategy = DOMAIN blendBase.strategy

\* C6: blending with a non-empty user-added list changes only the title (base
\* title plus the sandbox suffix), the asset list and the metrics; summary,
\* conservative measures, market outlook and benchmarks are the base's, and
\* the base portfolio itself is not modified by the step.
C6_BlendChangesOnlyTitleAssetsMetrics ==
    [][blendBase' = blendBase /\ BlendFrame']_vars

C6_Witness ==
    /\ blendUser # << >>
    /\ blendOut.title = "Balanced Growth Portfolio (Primary) (Sandbox Mode)"
    /\ Len(blendOut.strategy.benchmarks) = 2
    /\ blendOut.strategy.portfolioMetrics # blendBase.strategy.portfolioMetrics

(***************************************************************************)
(* The market-data service on its own: calls in flight, calls completed    *)
(***************************************************************************)
MaxMarketCalls == 2

\* Ticker lists the callers pass: a single added ticker (fetchAssetFinancials),
\* the tickers of a suggestion, and the tickers of an active portfolio that
\* holds MSFT both as a base and as a user-added asset (App.tsx:294).
MarketTickerLists ==
    {<<"AAPL">>, <<"MSFT", "AAPL">>, <<"MSFT", "MSFT">>}

MarketRandoms == {Num(0), R(9, 10)}

DrawsFor(tickers, randoms) == [1..Len(tickers) -> randoms \X randoms]

RemoveAt(seq, i) == SubSeq(seq, 1, i - 1) \o SubSeq(seq, i + 1, Len(seq))

InitMarket ==
    /\ AppIdle
    /\ BlendNone
    /\ OtherIdle
    /\ priceCache = EmptyMap
    /\ marketPending = << >>
    /\ marketLog = << >>

\* fetchMarketData(tickers) is called and waits for its timer (line 11).
MarketCall(tickers) ==
    /\ Len(marketPending) + Len(marketLog) < MaxMarketCalls
    /\ marketPending' = Append(marketPending, tickers)
    /\ UNCHANGED <<marketLog, priceCache, appVars, blendVars, otherVars>>

MarketResolveLosesWrite(i, draws) ==
    LET tickers == marketPending[i]
        result  == fetchMarketData(tickers, draws, priceCache)
    IN  /\ priceCache' = priceCache
        /\ marketLog' = Append(marketLog,
                               [tickers    |-> tickers,
                                marketData |-> result.marketData,
                                priceCache |-> result.priceCache,
                                inFlight   |-> RemoveAt(marketPending, i)])
        /\ marketPending' = RemoveAt(marketPending, i)
        /\ UNCHANGED <<appVars, blendVars, otherVars>>

\* The timer of the i-th call in flight fires: lines 13-39 run to completion
\* (the forEach is synchronous, nothing runs between its iterations).  The
\* log entry also keeps the calls still in flight at that moment.
MarketResolve(i, draws) ==
    LET tickers == marketPending[i]
        result  == fetchMarketData(tickers, draws, priceCache)
    IN  /\ priceCache' = result.priceCache
        /\ marketLog' = Append(marketLog,
                               [tickers    |-> tickers,
                                marketData |-> result.marketData,
                                priceCache |-> result.priceCache,
                                inFlight   |-> RemoveAt(marketPending, i)])
        /\ marketPending' = RemoveAt(marketPending, i)
        /\ UNCHANGED <<appVars, blendVars, otherVars>>

NextMarket ==
    \/ \E tickers \in MarketTickerLists : MarketCall(tickers)
    \/ \E i \in DOMAIN marketPending :
          \E draws \in DrawsFor(marketPending[i], MarketRandoms) :
              MarketResolve(i, draws)

SpecMarket == InitMarket /\ [][NextMarket]_vars

Requested(k) == {marketLog[k].tickers[i] : i \in DOMAIN marketLog[k].tickers}

\* The latest completed call before the k-th that requested ticker t (0: none).
PreviousCallFor(k, t) ==
    LET earlier == {j \in 1..(k - 1) : t \in Requested(j)}
    IN  IF earlier = {} THEN 0 ELSE CHOOSE j \in earlier : \A h \in earlier : h <= j

BasisOf(k, t) ==
    RSub(marketLog[k].marketData[t].currentPrice, marketLog[k].marketData[t].priceChange)

\* C10: of two fetchMarketData calls in sequence for the same ticker the
\* second fluctuates from the price the first wrote: second.currentPrice -
\* second.priceChange = first.currentPrice; a ticker absent from the cache is
\* seeded once (with a price in [20, 520)), and after every call the cache
\* holds for each requested ticker the currentPrice the call returned.
C10_SecondCallStartsFromFirstPrice ==
    \A k \in DOMAIN marketLog : \A t \in Requested(k) :
        /\ marketLog[k].priceCache[t] = marketLog[k].marketData[t].currentPrice
        /\ IF PreviousCallFor(k, t) = 0
           THEN InRange(Num(20), Num(520), BasisOf(k, t))
           ELSE BasisOf(k, t) = marketLog[PreviousCallFor(k, t)].marketData[t].currentPrice

\* The service called by concurrent callers whose ticker lists overlap and
\* name no ticker twice: an added ticker (fetchAssetFinancials, line 53) and
\* the tickers of a suggestion or of the active portfolio (App.tsx:147, 301).
OverlappingTickerLists ==
    {<<"AAPL">>, <<"MSFT", "AAPL">>}

NextOverlapping ==
    \/ \E tickers \in OverlappingTickerLists : MarketCall(tickers)
    \/ \E i \in DOMAIN marketPending :
          \E draws \in DrawsFor(marketPending[i], MarketRandoms) :
              MarketResolve(i, draws)

SpecOverlapping == InitMarket /\ [][NextOverlapping]_vars

Range(seq) == {seq[i] : i \in DOMAIN seq}

Once(tickers, t) == Cardinality({i \in DOMAIN tickers : tickers[i] = t}) = 1

\* What the two calls in flight return when the timer of marketPending[first]
\* fires before that of marketPending[second].
C22_Completions(first, second, drawsFirst, drawsSecond) ==
    LET one == fetchMarketData(marketPending[first], drawsFirst, priceCache)
        two == fetchMarketData(marketPending[second], drawsSecond, one.priceCache)
    IN  <<one, two>>

C22_Basis(marketDataOf, t) ==
    RSub(marketDataOf[t].currentPrice, marketDataOf[t].priceChange)

\* C22 as stated: two calls in flight for a common ticker can interleave:
\* from a state in which both wait for their timers there is a continuation
\* in which both fluctuate the ticker from the same previous price and the
\* cache ends with the later call's price.
C22_CallsCanInterleave ==
    \A t \in {"AAPL", "MSFT"} :
        (/\ Len(marketPending) = 2
         /\ Once(marketPending[1], t)
         /\ Once(marketPending[2], t)) =>
            \E order \in {<<1, 2>>, <<2, 1>>} :
                \E drawsFirst \in DrawsFor(marketPending[order[1]], MarketRandoms),
                   drawsSecond \in DrawsFor(marketPending[order[2]], MarketRandoms) :
                    LET done == C22_Completions(order[1], order[2], drawsFirst, drawsSecond)
                    IN  /\ C22_Basis(done[2].marketData, t) = C22_Basis(done[1].marketData, t)
                        /\ done[2].priceCache[t] = done[2].marketData[t].currentPrice

\* C22 amended: the calls never interleave.  Each call reads and writes the
\* cache in one uninterrupted step when its timer fires, so a call that
\* lists a ticker once fluctuates it from the price the call completed last
\* before it wrote, also when the two were in flight together; no write is
\* lost, and the order of completion decides the price the cache ends with.
C22_NoLostUpdate ==
    \A k \in DOMAIN marketLog : \A t \in Requested(k) :
        /\ marketLog[k].priceCache[t] = marketLog[k].marketData[t].currentPrice
        /\ (Once(marketLog[k].tickers, t) /\ PreviousCallFor(k, t) # 0) =>
               C22_Basis(marketLog[k].marketData, t)
                   = marketLog[PreviousCallFor(k, t)].priceCache[t]
        /\ k = Len(marketLog) =>
               /\ t \in DOMAIN priceCache
               /\ priceCache[t] = marketLog[k].priceCache[t]

\* Two calls listing AAPL were in flight together and have both completed.
C22_Witness ==
    /\ Len(marketLog) >= 2
    /\ marketLog[2].tickers \in Range(marketLog[1].inFlight)
    /\ "AAPL" \in Requested(1) \cap Requested(2)
    /\ Once(marketLog[2].tickers, "AAPL")
    /\ marketLog[2].marketData["AAPL"].priceChange # Num(0)

(***************************************************************************)
(* The other simulated services and the external completion service       *)
(***************************************************************************)
Floor(x) == x[1] \div x[2]

\* parseFloat(x.toFixed(2)) for x >= 0: the nearest multiple of 1/100, the
\* larger one on a tie.
toFixed2(x) ==
    LET whole == x[1] \div x[2]
        cents == (200 * (x[1] % x[2]) + x[2]) \div (2 * x[2])
    IN  R(100 * whole + cents, 100)

sectors ==
    <<"Technology", "Healthcare", "Financials", "Consumer Discretionary",
      "Industrials", "Energy", "Real Estate", "Utilities">>

\* fetchAssetFinancials(ticker) once both of its timers have fired; u holds
\* its Math.random() results.
fetchAssetFinancials(ticker, u, cache) ==
    LET fetched == fetchMarketData(<<ticker>>, <<<<u.seed, u.fluctuation>>>>, cache)
    IN  [financials |->
            [name           |-> toUpperCase(ticker) \o " Holdings Inc.",
             sector         |-> sectors[Floor(RMul(u.sector, Num(Len(sectors)))) + 1],
             beta           |-> toFixed2(RAdd(R(1, 2), RMul(u.beta, R(3, 2)))),
             expectedReturn |-> toFixed2(RAdd(Num(5), RMul(u.expectedReturn, Num(10)))),
             volatility     |-> toFixed2(RAdd(Num(10), RMul(u.volatility, Num(20)))),
             rationale      |-> "This asset was added by the user for custom analysis.",
             marketData     |-> fetched.marketData[ticker]],
         priceCache |-> fetched.priceCache]

Holding(ticker, name, sector, shares, value, purchasePrice) ==
    [ticker |-> ticker, name |-> name, sector |-> sector, shares |-> shares,
     value |-> value, purchasePrice |-> purchasePrice]

Values(holdings) == [i \in 1..Len(holdings) |-> holdings[i].value]

simulateLinkBrokerageAccount ==
    LET holdings ==
            <<Holding("AAPL", "Apple Inc.", "Technology", 50, Num(9500), Num(150)),
              Holding("MSFT", "Microsoft Corp.", "Technology", 30, Num(12000), Num(300)),
              Holding("VTI", "Vanguard Total Stock Market ETF", "Diversified Index", 60,
                      Num(15000), Num(220)),
              Holding("JNJ", "Johnson & Johnson", "Healthcare", 50, Num(8000), Num(160)),
              Holding("BND", "Vanguard Total Bond Market ETF", "Fixed Income", 100,
                      Num(7500), Num(76))>>
    IN  [accountName |-> "Fidelity Brokerage",
         totalValue  |-> Reduce(Values(holdings), Num(0)),
         holdings    |-> holdings]

HistoryDays == 180

walkStepRounded(value, u, bias, scale) ==
    toFixed2(RMul(value, RAdd(Num(1), RMul(RSub(u, bias), scale))))

\* One day of the walk: value * (1 + (Math.random() - bias) * scale)
walkStep(value, u, bias, scale) ==
    RMul(value, RAdd(Num(1), RMul(RSub(u, bias), scale)))

\* The running (unrounded) values after each iteration of the loop of
\* fetchPerformanceHistory for the day offsets hi down to lo, entered with
\* `values`; draws[i] holds the three Math.random() results of day offset i.
\* The range is split in two so that the evaluation stays shallow.
RECURSIVE walkRange(_, _, _, _)
walkRange(hi, lo, draws, values) ==
    IF hi = lo
    THEN <<[portfolioValue    |-> walkStep(values.portfolioValue, draws[hi].portfolio,
                                           R(48, 100), R(15, 1000)),
            benchmarkValue    |-> walkStep(values.benchmarkValue, draws[hi].benchmark,
                                           R(49, 100), R(14, 1000)),
            aiSuggestionValue |-> walkStep(values.aiSuggestionValue, draws[hi].aiSuggestion,
                                           R(47, 100), R(16, 1000))]>>
    ELSE LET mid   == (hi + lo + 1) \div 2
             first == walkRange(hi, mid, draws, values)
         IN  first \o walkRange(mid - 1, lo, draws, first[Len(first)])

\* Time zones: the hours local time is ahead of UTC, in winter and from the
\* local day dstStart on.
UTC == [name |-> "UTC", winter |-> 0, summer |-> 0, dstStart |-> 0]

Tokyo == [name |-> "Asia/Tokyo", winter |-> 9, summer |-> 9, dstStart |-> 0]

London == [name |-> "Europe/London", winter |-> 0, summer |-> 1, dstStart |-> 100]

NewYork == [name |-> "America/New_York", winter |-> -5, summer |-> -4, dstStart |-> 100]

utcOffset(zone, day) == IF day >= zone.dstStart THEN zone.summer ELSE zone.winter

\* date.toISOString().split('T')[0] of the instant that is `hour` o'clock
\* local time on local day `day`: the day number of its UTC calendar date.
toISODate(zone, day, hour) ==
    ((24 * day + hour - utcOffset(zone, day)) + 24) \div 24 - 1

\* fetchPerformanceHistory after its timer.  today = new Date() is the local
\* day today.day at today.hour o'clock in today.zone; setDate(getDate() - i)
\* moves the local calendar day and keeps the local time of day.
fetchPerformanceHistory(today, draws) ==
    LET running == walkRange(HistoryDays, 0, draws,
                             [portfolioValue    |-> Num(100000),
                              benchmarkValue    |-> Num(100000),
                              aiSuggestionValue |-> Num(100000)])
    IN  [k \in 1..Len(running) |->
            [date              |-> toISODate(today.zone,
                                             today.day - (HistoryDays - (k - 1)),
                                             today.hour),
             portfolioValue    |-> toFixed2(running[k].portfolioValue),
             benchmarkValue    |-> toFixed2(running[k].benchmarkValue),
             aiSuggestionValue |-> toFixed2(running[k].aiSuggestionValue)]]

\* fetchPortfolioSuggestion on a reply of the completion service: reply.json
\* says whether response.text parses, reply.primary and reply.alternatives
\* are the parsed fields (None when missing).
fetchPortfolioSuggestion(reply) ==
    IF ~reply.json
    THEN [ok |-> FALSE,
          message |-> "Failed to generate a portfolio. The AI model may have returned an invalid structure. Please try again."]
    ELSE IF reply.primary = None \/ reply.alternatives = None
            \/ Len(reply.alternatives[1]) < 2
    THEN [ok |-> FALSE,
          message |-> "API response is missing primary or sufficient alternative portfolios."]
    ELSE [ok |-> TRUE,
          data |-> [primary |-> reply.primary[1], alternatives |-> reply.alternatives[1]]]

OptimizedAllocation(ticker, allocation) == [ticker |-> ticker, allocation |-> allocation]

\* fetchOptimizedAllocations on the parsed reply (a list of OptimizedAllocation,
\* total # 0): normalized to 100 when the total is off by more than 1.
fetchOptimizedAllocations(result) ==
    LET totalAllocation == Reduce(Allocations(result), Num(0))
    IN  IF RLt(Num(1), MathAbs(RSub(totalAllocation, Num(100))))
        THEN [i \in 1..Len(result) |->
                 [result[i] EXCEPT
                     !.allocation = RMul(RDiv(@, totalAllocation), Num(100))]]
        ELSE result

(***************************************************************************)
(* The App component: derived values                                       *)
(***************************************************************************)
\* App.tsx:50-53
allSuggestedPortfoliosOf(result) ==
    IF result = None THEN << >>
    ELSE <<result[1].primary>> \o result[1].alternatives

\* App.tsx:61-90: the base portfolio of a linked account
livePortfolio(account) ==
    [title     |-> "Live Portfolio (" \o account.accountName \o ")",
     portfolio |->
        [i \in 1..Len(account.holdings) |->
            [Asset(account.holdings[i].ticker, account.holdings[i].name,
                   account.holdings[i].sector,
                   RMul(RDiv(account.holdings[i].value, account.totalValue), Num(100)),
                   Num(1), Num(8), Num(15),
                   "From linked account: " \o account.accountName)
                EXCEPT !.purchasePrice = Some(account.holdings[i].purchasePrice)]],
     strategy  |->
        [summary              |-> "This is an analysis of your currently held assets from your linked brokerage account.",
         conservativeMeasures |-> "Review your live holdings for concentration risk and consider diversification.",
         marketOutlook        |-> "Market conditions can affect your live holdings. Stay informed on relevant news.",
         portfolioMetrics     |-> Metrics(Num(8), Num(15), Num(1), Num(5)),
         benchmarks           |-> <<Benchmark("S&P 500", Num(10), Num(18))>>]]

\* App.tsx:56-93: None when there is nothing to show
basePortfolioOf(m, result, index, account) ==
    IF m = "suggestion" /\ result # None
    THEN IF index + 1 \in DOMAIN allSuggestedPortfoliosOf(result)
         THEN Some(allSuggestedPortfoliosOf(result)[index + 1])
         ELSE None
    ELSE IF m = "live" /\ account # None
    THEN Some(livePortfolio(account[1]))
    ELSE None

\* App.tsx:55-125
activePortfolioOf(m, result, index, account, userAssets) ==
    IF basePortfolioOf(m, result, index, account) = None THEN None
    ELSE Some(blend(basePortfolioOf(m, result, index, account)[1], userAssets))

basePortfolio ==
    basePortfolioOf(mode, suggestionResult, selectedPortfolioIndex, linkedAccount)

\* The memo recomputed on the render that follows a state change.
render ==
    activePortfolio' =
        activePortfolioOf(mode', suggestionResult', selectedPortfolioIndex',
                          linkedAccount', userAddedAssets')

\* App.tsx:330
isSandboxMode == Len(userAddedAssets) > 0

(***************************************************************************)
(* Inputs of the App model                                                 *)
(***************************************************************************)
MaxToasts == 1

MaxRequests == 4

PrimaryPortfolio ==
    Portfolio("Balanced Growth Portfolio (Primary)",
              <<Asset("AAPL", "Apple Inc.", "Technology", Num(60), R(6, 5), Num(10), Num(20), "growth"),
                Asset("BND", "Vanguard Total Bond Market ETF", "Fixed Income", Num(40),
                      R(1, 10), Num(4), Num(5), "ballast")>>,
              "Balanced.", Metrics(R(38, 5), Num(14), R(19, 25), Num(6)),
              <<Benchmark("S&P 500", Num(10), Num(18)), Benchmark("Bonds", Num(4), Num(6))>>)

ConservativePortfolio ==
    Portfolio("Conservative Alternative",
              <<Asset("BND", "Vanguard Total Bond Market ETF", "Fixed Income", Num(70),
                      R(1, 10), Num(4), Num(5), "ballast"),
                Asset("MSFT", "Microsoft Corp.", "Technology", Num(30), Num(1), Num(9),
                      Num(18), "quality")>>,
              "Conservative.", Metrics(R(11, 2), R(89, 10), R(37, 100), Num(4)),
              <<Benchmark("S&P 500", Num(10), Num(18)), Benchmark("Bonds", Num(4), Num(6))>>)

AggressivePortfolio ==
    Portfolio("Aggressive Growth Alternative",
              <<Asset("AAPL", "Apple Inc.", "Technology", Num(50), R(6, 5), Num(10), Num(20), "growth"),
                Asset("nvda", "NVIDIA Corp.", "Technology", Num(50), R(9, 5), Num(15),
                      Num(35), "momentum")>>,
              "Aggressive.", Metrics(R(25, 2), R(55, 2), R(3, 2), Num(9)),
              <<Benchmark("S&P 500", Num(10), Num(18)), Benchmark("Bonds", Num(4), Num(6))>>)

IncomePortfolio ==
    Portfolio("Income Alternative",
              <<Asset("BND", "Vanguard Total Bond Market ETF", "Fixed Income", Num(100),
                      R(1, 10), Num(4), Num(5), "income")>>,
              "Income.", Metrics(Num(4), Num(5), R(1, 10), Num(2)),
              <<Benchmark("Bonds", Num(4), Num(6))>>)

\* Replies of the completion service to the suggestion request: the text
\* parses or not, and the parsed object has a primary and an alternatives
\* array or lacks them (None).
SuggestionReplies ==
    {[json |-> TRUE, primary |-> Some(PrimaryPortfolio),
      alternatives |-> Some(<<ConservativePortfolio, AggressivePortfolio>>)],
     [json |-> TRUE, primary |-> Some(PrimaryPortfolio),
      alternatives |-> Some(<<ConservativePortfolio, AggressivePortfolio,
                              IncomePortfolio>>)],
     [json |-> TRUE, primary |-> Some(PrimaryPortfolio),
      alternatives |-> Some(<<ConservativePortfolio>>)],
     [json |-> TRUE, primary |-> None,
      alternatives |-> Some(<<ConservativePortfolio, AggressivePortfolio>>)],
     [json |-> TRUE, primary |-> Some(PrimaryPortfolio), alternatives |-> None],
     [json |-> FALSE, primary |-> None, alternatives |-> None]}

\* The replies the App model draws from: an accepted one and the two kinds of
\* failure.
AppSuggestionReplies ==
    {[json |-> TRUE, primary |-> Some(PrimaryPortfolio),
      alternatives |-> Some(<<ConservativePortfolio, AggressivePortfolio>>)],
     [json |-> TRUE, primary |-> Some(PrimaryPortfolio),
      alternatives |-> Some(<<ConservativePortfolio>>)],
     [json |-> FALSE, primary |-> None, alternatives |-> None]}

ProfileInputs ==
    {[amount |-> Num(10000), riskLevel |-> "Moderate",
      horizon |-> "3-7 Years (Medium-term)", goal |-> "Capital Growth"]}

\* What the sandbox form can hold on submit: the ticker field is upper-cased
\* on input (part_000:106), the allocation field is free text.
TickerInputs == {" ", "MSFT", "NVDA"}

AllocationInputs == {"", "0", "49", "50", "100"}

NaN == <<0, 0>>

isNaN(x) == x[2] = 0

parseFloat(text) ==
    CASE text = "0"   -> Num(0)
      [] text = "49"  -> Num(49)
      [] text = "50"  -> Num(50)
      [] text = "100" -> Num(100)
      [] OTHER        -> NaN

OptimizationGoals == {"MINIMIZE_RISK", "MAXIMIZE_RETURN"}

\* Math.random() results in the App model
AppRandoms == {R(1, 2)}

FinancialsDraws ==
    [{"beta", "expectedReturn", "volatility", "sector", "seed", "fluctuation"} -> AppRandoms]

\* Math.random() results of fetchPerformanceHistory: three per day offset.
\* FlatDraws keeps every series at 100000; MovingDraws moves the portfolio
\* series on the first two days (by 1/300000 and by 6/1000).
FlatDraws ==
    [i \in 0..HistoryDays |->
        [portfolio |-> R(48, 100), benchmark |-> R(49, 100), aiSuggestion |-> R(47, 100)]]

MovingDraws ==
    [i \in 0..HistoryDays |->
        [portfolio    |-> IF i = HistoryDays THEN R(2161, 4500)
                          ELSE IF i = HistoryDays - 1 THEN R(269, 300)
                          ELSE R(48, 100),
         benchmark    |-> R(49, 100),
         aiSuggestion |-> R(47, 100)]]

PerformanceDraws == {FlatDraws}

\* new Date() at the call of fetchPerformanceHistory in the App model
AppToday == [day |-> 200, hour |-> 12, zone |-> UTC]

\* Replies of the completion service to the optimization request for a
\* portfolio: an even split, an even split of 50 points in all, a reply that
\* leaves out all tickers but the first and adds one the portfolio does not
\* hold, and a failure.
OptimizationReplies(portfolio) ==
    LET n == Len(portfolio) IN
    {[ok |-> TRUE,
      result |-> [i \in 1..n |-> OptimizedAllocation(portfolio[i].ticker, R(100, n))]],
     [ok |-> TRUE,
      result |-> [i \in 1..n |-> OptimizedAllocation(portfolio[i].ticker, R(50, n))]],
     [ok |-> TRUE,
      result |-> <<OptimizedAllocation(portfolio[1].ticker, Num(60)),
                   OptimizedAllocation("TSLA", Num(40))>>],
     [ok |-> FALSE, result |-> << >>]}

\* What fetchPerformanceHistory returns for each of the catalogued draws,
\* called at AppToday (<< >> @@ f is the function f, enumerated once).
PerformanceHistories ==
    << >> @@ [draws \in PerformanceDraws |->
                 << >> @@ fetchPerformanceHistory(AppToday, draws)]

(***************************************************************************)
(* The App component: handlers                                             *)
(***************************************************************************)
InitApp ==
    /\ AppIdle
    /\ MarketIdle
    /\ BlendNone
    /\ OtherIdle

\* addToast (App.tsx:37-43); the toast's own timer is removeToast below.
addToast(type) ==
    /\ Len(toasts) < MaxToasts
    /\ toasts' = Append(toasts, type)

\* The 5000 ms timer of the oldest toast fires (App.tsx:40-47).
removeToast ==
    /\ toasts # << >>
    /\ toasts' = Tail(toasts)
    /\ UNCHANGED <<activePortfolio, mode, suggestionResult, selectedPortfolioIndex, linkedAccount,
                   performanceHistory, userAddedAssets, userProfile, isLoading,
                   isProcessing, error, inflight, requests, priceCache,
                   marketVars, blendVars, otherVars>>

\* A handler that only reports an error and returns.
toastErrorAndReturn ==
    /\ addToast("error")
    /\ UNCHANGED <<activePortfolio, mode, suggestionResult, selectedPortfolioIndex, linkedAccount,
                   performanceHistory, userAddedAssets, userProfile, isLoading,
                   isProcessing, error, inflight, requests, priceCache,
                   marketVars, blendVars, otherVars>>

\* App.tsx:209
alreadyInPortfolio(ticker) ==
    \E i \in DOMAIN activePortfolio[1].portfolio :
        toUpperCase(activePortfolio[1].portfolio[i].ticker) = toUpperCase(ticker)

exceedsUserAllocationStrictly(allocation) ==
    RLt(Num(100), RAdd(totalUserAllocation(userAddedAssets), allocation))

\* App.tsx:214-215
exceedsUserAllocation(allocation) ==
    RLe(Num(100), RAdd(totalUserAllocation(userAddedAssets), allocation))

\* handleAddStock up to its await (App.tsx:206-222)
handleAddStock(ticker, allocation) ==
    IF activePortfolio = None
    THEN UNCHANGED vars
    ELSE IF alreadyInPortfolio(ticker)
    THEN toastErrorAndReturn
    ELSE IF exceedsUserAllocation(allocation)
    THEN toastErrorAndReturn
    ELSE /\ requests < MaxRequests
         /\ requests' = requests + 1
         /\ isProcessing' = TRUE
         /\ inflight' = inflight \cup
                {[op |-> "add", ticker |-> ticker, allocation |-> allocation]}
         /\ UNCHANGED <<activePortfolio, mode, suggestionResult, selectedPortfolioIndex, linkedAccount,
                        performanceHistory, userAddedAssets, userProfile, isLoading,
                        error, toasts, priceCache, marketVars, blendVars, otherVars>>

allocationOutOfRangeAllowsZero(allocNum) ==
    isNaN(allocNum) \/ RLt(allocNum, Num(0)) \/ RLe(Num(100), allocNum)

\* The allocation test of handleAdd (part_000:38)
allocationOutOfRange(allocNum) ==
    isNaN(allocNum) \/ RLe(allocNum, Num(0)) \/ RLe(Num(100), allocNum)

handleAddWhileProcessing(ticker, allocation) ==
    /\ activePortfolio # None
    /\ ticker # ""
    /\ IF trim(ticker) = ""
       THEN toastErrorAndReturn
       ELSE IF allocationOutOfRange(parseFloat(allocation))
       THEN toastErrorAndReturn
       ELSE handleAddStock(ticker, parseFloat(allocation))

\* The sandbox form is submitted: handleAdd (part_000:30-46), which calls
\* handleAddStock.  The form exists while a portfolio is shown (App.tsx:403)
\* and its submit button is enabled while no sandbox request is processing
\* and the ticker field is not empty (part_000:127).
handleAdd(ticker, allocation) ==
    /\ activePortfolio # None
    /\ ~isProcessing
    /\ ticker # ""
    /\ IF trim(ticker) = ""
       THEN toastErrorAndReturn
       ELSE IF allocationOutOfRange(parseFloat(allocation))
       THEN toastErrorAndReturn
       ELSE handleAddStock(ticker, parseFloat(allocation))

\* fetchAssetFinancials resolves: handleAddStock after its await
\* (App.tsx:222-237).
resolveAddStock(request, u) ==
    /\ request \in inflight
    /\ request.op = "add"
    /\ LET fetched == fetchAssetFinancials(request.ticker, u, priceCache)
           newUserAsset ==
               [ticker         |-> toUpperCase(request.ticker),
                name           |-> fetched.financials.name,
                sector         |-> fetched.financials.sector,
                allocation     |-> request.allocation,
                beta           |-> fetched.financials.beta,
                expectedReturn |-> fetched.financials.expectedReturn,
                volatility     |-> fetched.financials.volatility,
                rationale      |-> fetched.financials.rationale,
                marketData     |-> Some(fetched.financials.marketData),
                isUserAdded    |-> Some(TRUE),
                purchasePrice  |-> Some(fetched.financials.marketData.currentPrice)]
       IN  /\ priceCache' = fetched.priceCache
           /\ userAddedAssets' = Append(userAddedAssets, newUserAsset)
    /\ addToast("success")
    /\ isProcessing' = FALSE
    /\ inflight' = inflight \ {request}
    /\ UNCHANGED <<mode, suggestionResult, selectedPortfolioIndex, linkedAccount,
                   performanceHistory, userProfile, isLoading, error, requests,
                   marketVars, blendVars, otherVars>>
    /\ render

rejectAddStockDropsAssets(request) ==
    /\ request \in inflight
    /\ request.op = "add"
    /\ userAddedAssets' = << >>
    /\ addToast("error")
    /\ isProcessing' = FALSE
    /\ inflight' = inflight \ {request}
    /\ UNCHANGED <<mode, suggestionResult, selectedPortfolioIndex, linkedAccount,
                   performanceHistory, userProfile, isLoading, error,
                   requests, priceCache, marketVars, blendVars, otherVars>>
    /\ render

\* fetchAssetFinancials rejects: the catch and finally of handleAddStock
\* (App.tsx:234-238).  The simulated service of marketDataService.ts never
\* rejects; this is the outcome the handler's try/catch is written for.
rejectAddStock(request) ==
    /\ request \in inflight
    /\ request.op = "add"
    /\ addToast("error")
    /\ isProcessing' = FALSE
    /\ inflight' = inflight \ {request}
    /\ UNCHANGED <<mode, suggestionResult, selectedPortfolioIndex, linkedAccount,
                   performanceHistory, userAddedAssets, userProfile, isLoading, error,
                   requests, priceCache, marketVars, blendVars, otherVars>>
    /\ render

\* "Reset to AI Original" (App.tsx:201-204), shown in sandbox mode
\* (part_000:135-153).
handleResetPortfolio ==
    /\ activePortfolio # None
    /\ isSandboxMode
    /\ userAddedAssets' = << >>
    /\ addToast("info")
    /\ UNCHANGED <<mode, suggestionResult, selectedPortfolioIndex, linkedAccount,
                   performanceHistory, userProfile, isLoading, isProcessing, error,
                   inflight, requests, priceCache, marketVars, blendVars, otherVars>>
    /\ render

\* One of the "Select AI Suggestion" buttons (App.tsx:196-199, 361-379).
handleSelectPortfolio(index) ==
    /\ mode = "suggestion"
    /\ suggestionResult # None
    /\ index + 1 \in DOMAIN allSuggestedPortfoliosOf(suggestionResult)
    /\ selectedPortfolioIndex' = index
    /\ UNCHANGED <<mode, suggestionResult, linkedAccount, performanceHistory,
                   userAddedAssets, userProfile, isLoading, isProcessing, error,
                   toasts, inflight, requests, priceCache, marketVars,
                   blendVars, otherVars>>
    /\ render

\* handleOptimizePortfolio up to its await (App.tsx:240-245); the buttons are
\* shown in sandbox mode and enabled while nothing is processing
\* (part_000:135-143).  The request keeps what the closure captured.
handleOptimizePortfolio(goal) ==
    /\ activePortfolio # None
    /\ isSandboxMode
    /\ ~isProcessing
    /\ userProfile # None
    /\ requests < MaxRequests
    /\ requests' = requests + 1
    /\ isProcessing' = TRUE
    /\ inflight' = inflight \cup
           {[op                     |-> "optimize",
             activePortfolio        |-> activePortfolio[1],
             mode                   |-> mode,
             suggestionResult       |-> suggestionResult,
             selectedPortfolioIndex |-> selectedPortfolioIndex,
             linkedAccount          |-> linkedAccount]}
    /\ UNCHANGED <<activePortfolio, mode, suggestionResult, selectedPortfolioIndex, linkedAccount,
                   performanceHistory, userAddedAssets, userProfile, isLoading,
                   error, toasts, priceCache, marketVars, blendVars, otherVars>>

\* new Map(optimizedAllocs.map(a => [a.ticker.toUpperCase(), a.allocation]))
RECURSIVE allocMapOf(_, _)
allocMapOf(optimizedAllocs, map) ==
    IF optimizedAllocs = << >> THEN map
    ELSE allocMapOf(Tail(optimizedAllocs),
                    Put(map, toUpperCase(Head(optimizedAllocs).ticker),
                        Head(optimizedAllocs).allocation))

newPortfolioKeepsUserFlag(portfolio, allocMap) ==
    [i \in 1..Len(portfolio) |->
        [portfolio[i] EXCEPT
            !.allocation = IF toUpperCase(portfolio[i].ticker) \in DOMAIN allocMap
                           THEN allocMap[toUpperCase(portfolio[i].ticker)]
                           ELSE @]]

newPortfolioZeroesMissing(portfolio, allocMap) ==
    [i \in 1..Len(portfolio) |->
        [portfolio[i] EXCEPT
            !.allocation = IF toUpperCase(portfolio[i].ticker) \in DOMAIN allocMap
                           THEN allocMap[toUpperCase(portfolio[i].ticker)]
                           ELSE Num(0),
            !.isUserAdded = Some(FALSE)]]

\* App.tsx:249-253
newPortfolioOf(portfolio, allocMap) ==
    [i \in 1..Len(portfolio) |->
        [portfolio[i] EXCEPT
            !.allocation = IF toUpperCase(portfolio[i].ticker) \in DOMAIN allocMap
                           THEN allocMap[toUpperCase(portfolio[i].ticker)]
                           ELSE @,
            !.isUserAdded = Some(FALSE)]]

\* App.tsx:256-267
optimizedSuggestionResult(request, newPortfolio) ==
    LET all    == allSuggestedPortfoliosOf(request.suggestionResult)
        index  == request.selectedPortfolioIndex
        updatedPortfolioDetails ==
            [request.activePortfolio EXCEPT
                !.title = all[index + 1].title \o " (Optimized)",
                !.portfolio = newPortfolio]
        newAllPortfolios == [all EXCEPT ![index + 1] = updatedPortfolioDetails]
    IN  Some([primary      |-> newAllPortfolios[1],
              alternatives |-> Tail(newAllPortfolios)])

\* App.tsx:269-281
optimizedLinkedAccount(request, newPortfolio) ==
    Some([request.linkedAccount[1] EXCEPT
        !.holdings =
            [i \in 1..Len(newPortfolio) |->
                Holding(newPortfolio[i].ticker, newPortfolio[i].name,
                        newPortfolio[i].sector, 0,
                        RMul(request.linkedAccount[1].totalValue,
                             RDiv(newPortfolio[i].allocation, Num(100))),
                        IF newPortfolio[i].purchasePrice = None
                        THEN Num(0)
                        ELSE newPortfolio[i].purchasePrice[1])]])

\* fetchOptimizedAllocations resolves or throws: handleOptimizePortfolio
\* after its await (App.tsx:245-289).
resolveOptimize(request, reply) ==
    /\ request \in inflight
    /\ request.op = "optimize"
    /\ IF reply.ok
       THEN LET optimizedAllocs == fetchOptimizedAllocations(reply.result)
                newPortfolio ==
                    newPortfolioOf(request.activePortfolio.portfolio,
                                   allocMapOf(optimizedAllocs, EmptyMap))
            IN  /\ IF request.mode = "suggestion" /\ request.suggestionResult # None
                   THEN /\ suggestionResult' =
                               optimizedSuggestionResult(request, newPortfolio)
                        /\ UNCHANGED linkedAccount
                   ELSE IF request.mode = "live" /\ request.linkedAccount # None
                   THEN /\ linkedAccount' = optimizedLinkedAccount(request, newPortfolio)
                        /\ UNCHANGED suggestionResult
                   ELSE UNCHANGED <<suggestionResult, linkedAccount>>
                /\ userAddedAssets' = << >>
                /\ addToast("success")
       ELSE /\ addToast("error")
            /\ UNCHANGED <<suggestionResult, linkedAccount, userAddedAssets>>
    /\ isProcessing' = FALSE
    /\ inflight' = inflight \ {request}
    /\ UNCHANGED <<mode, selectedPortfolioIndex, performanceHistory, userProfile,
                   isLoading, error, requests, priceCache, marketVars,
                   blendVars, otherVars>>
    /\ render

\* handleSuggestion up to its first await (App.tsx:128-140); the form's
\* button is enabled while nothing is loading (part_001:101).
handleSuggestion(profile) ==
    /\ ~isLoading
    /\ requests < MaxRequests
    /\ requests' = requests + 1
    /\ isLoading' = TRUE
    /\ error' = None
    /\ suggestionResult' = None
    /\ linkedAccount' = None
    /\ performanceHistory' = None
    /\ userAddedAssets' = << >>
    /\ mode' = "suggestion"
    /\ userProfile' = Some(profile)
    /\ inflight' = inflight \cup {[op |-> "suggestion", stage |-> "service"]}
    /\ UNCHANGED <<selectedPortfolioIndex, isProcessing, toasts,
                   priceCache, marketVars, blendVars, otherVars>>
    /\ render

\* [...new Set(allTickers)]
RECURSIVE uniqueOf(_, _)
uniqueOf(tickers, seen) ==
    IF tickers = << >> THEN << >>
    ELSE IF Head(tickers) \in seen THEN uniqueOf(Tail(tickers), seen)
    ELSE <<Head(tickers)>> \o uniqueOf(Tail(tickers), seen \cup {Head(tickers)})

RECURSIVE flatTickers(_)
flatTickers(portfolios) ==
    IF portfolios = << >> THEN << >>
    ELSE Tickers(Head(portfolios).portfolio) \o flatTickers(Tail(portfolios))

\* App.tsx:142-146
uniqueTickersOf(data) ==
    uniqueOf(Tickers(data.primary.portfolio) \o flatTickers(data.alternatives), {})

resolveSuggestionServiceKeepsLoading(request, reply) ==
    /\ request \in inflight
    /\ request.op = "suggestion"
    /\ request.stage = "service"
    /\ IF fetchPortfolioSuggestion(reply).ok
       THEN /\ inflight' = (inflight \ {request}) \cup
                   {[op |-> "suggestion", stage |-> "market",
                     data |-> fetchPortfolioSuggestion(reply).data]}
            /\ UNCHANGED <<error, isLoading>>
       ELSE /\ error' = Some(fetchPortfolioSuggestion(reply).message)
            /\ UNCHANGED isLoading
            /\ inflight' = inflight \ {request}
    /\ UNCHANGED <<activePortfolio, mode, suggestionResult, selectedPortfolioIndex, linkedAccount,
                   performanceHistory, userAddedAssets, userProfile, isProcessing,
                   toasts, requests, priceCache, marketVars, blendVars, otherVars>>

\* fetchPortfolioSuggestion resolves or throws (App.tsx:140, 165-168); on
\* success the handler goes on to await fetchMarketData (App.tsx:147).
resolveSuggestionService(request, reply) ==
    /\ request \in inflight
    /\ request.op = "suggestion"
    /\ request.stage = "service"
    /\ IF fetchPortfolioSuggestion(reply).ok
       THEN /\ inflight' = (inflight \ {request}) \cup
                   {[op |-> "suggestion", stage |-> "market",
                     data |-> fetchPortfolioSuggestion(reply).data]}
            /\ UNCHANGED <<error, isLoading>>
       ELSE /\ error' = Some(fetchPortfolioSuggestion(reply).message)
            /\ isLoading' = FALSE
            /\ inflight' = inflight \ {request}
    /\ UNCHANGED <<activePortfolio, mode, suggestionResult, selectedPortfolioIndex, linkedAccount,
                   performanceHistory, userAddedAssets, userProfile, isProcessing,
                   toasts, requests, priceCache, marketVars, blendVars, otherVars>>

\* App.tsx:149-155; purchaseDraws[ticker] is the asset's Math.random() result
addSimulatedPrices(p, liveMarketData, purchaseDraws) ==
    [p EXCEPT !.portfolio =
        [i \in 1..Len(p.portfolio) |->
            [p.portfolio[i] EXCEPT !.purchasePrice =
                Some(RMul(liveMarketData[p.portfolio[i].ticker].currentPrice,
                          RAdd(Num(1),
                               RMul(RSub(purchaseDraws[p.portfolio[i].ticker], R(2, 10)),
                                    R(2, 10)))))]]]

\* fetchMarketData resolves: handleSuggestion after its second await
\* (App.tsx:147-168).
resolveSuggestionMarket(request, draws, purchaseDraws) ==
    /\ request \in inflight
    /\ request.op = "suggestion"
    /\ request.stage = "market"
    /\ LET fetched == fetchMarketData(uniqueTickersOf(request.data), draws, priceCache)
       IN  /\ priceCache' = fetched.priceCache
           /\ suggestionResult' =
                  Some([primary |->
                            addSimulatedPrices(request.data.primary, fetched.marketData,
                                               purchaseDraws),
                        alternatives |->
                            [i \in 1..Len(request.data.alternatives) |->
                                addSimulatedPrices(request.data.alternatives[i],
                                                   fetched.marketData, purchaseDraws)]])
    /\ selectedPortfolioIndex' = 0
    /\ addToast("success")
    /\ isLoading' = FALSE
    /\ inflight' = inflight \ {request}
    /\ UNCHANGED <<mode, linkedAccount, performanceHistory, userAddedAssets,
                   userProfile, isProcessing, error, requests, marketVars,
                   blendVars, otherVars>>
    /\ render

\* handleLinkAccount up to its await (App.tsx:172-183); the button is enabled
\* while nothing is loading (part_001:139).
handleLinkAccount ==
    /\ ~isLoading
    /\ requests < MaxRequests
    /\ requests' = requests + 1
    /\ isLoading' = TRUE
    /\ error' = None
    /\ suggestionResult' = None
    /\ linkedAccount' = None
    /\ performanceHistory' = None
    /\ userAddedAssets' = << >>
    /\ inflight' = inflight \cup {[op |-> "link"]}
    /\ UNCHANGED <<mode, selectedPortfolioIndex, userProfile, isProcessing, toasts,
                   priceCache, marketVars, blendVars, otherVars>>
    /\ render

\* Both promises of handleLinkAccount have resolved (App.tsx:184-192).
resolveLinkAccount(request, draws) ==
    /\ request \in inflight
    /\ request.op = "link"
    /\ linkedAccount' = Some(simulateLinkBrokerageAccount)
    /\ performanceHistory' = Some(PerformanceHistories[draws])
    /\ userProfile' =
           IF userProfile # None
           THEN Some([userProfile[1] EXCEPT !.amount = simulateLinkBrokerageAccount.totalValue])
           ELSE Some([amount    |-> simulateLinkBrokerageAccount.totalValue,
                      riskLevel |-> "Moderate",
                      horizon   |-> "7+ Years (Long-term)",
                      goal      |-> "Capital Growth"])
    /\ mode' = "live"
    /\ addToast("success")
    /\ isLoading' = FALSE
    /\ inflight' = inflight \ {request}
    /\ UNCHANGED <<suggestionResult, selectedPortfolioIndex, userAddedAssets,
                   isProcessing, error, requests, priceCache, marketVars,
                   blendVars, otherVars>>
    /\ render

Next ==
    \/ \E ticker \in TickerInputs, allocation \in AllocationInputs :
          handleAdd(ticker, allocation)
    \/ \E request \in inflight, u \in FinancialsDraws : resolveAddStock(request, u)
    \/ \E request \in inflight : rejectAddStock(request)
    \/ handleResetPortfolio
    \/ \E index \in 0..(Len(allSuggestedPortfoliosOf(suggestionResult)) - 1) :
          handleSelectPortfolio(index)
    \/ \E goal \in OptimizationGoals : handleOptimizePortfolio(goal)
    \/ \E request \in inflight :
          /\ request.op = "optimize"
          /\ \E reply \in OptimizationReplies(request.activePortfolio.portfolio) :
                resolveOptimize(request, reply)
    \/ \E profile \in ProfileInputs : handleSuggestion(profile)
    \/ \E request \in inflight, reply \in AppSuggestionReplies :
          resolveSuggestionService(request, reply)
    \/ \E request \in inflight :
          /\ request.op = "suggestion"
          /\ request.stage = "market"
          /\ \E draws \in DrawsFor(uniqueTickersOf(request.data), AppRandoms),
                purchaseDraws \in [{"AAPL", "BND", "MSFT", "nvda"} -> AppRandoms] :
                resolveSuggestionMarket(request, draws, purchaseDraws)
    \/ handleLinkAccount
    \/ \E request \in inflight, draws \in PerformanceDraws :
          resolveLinkAccount(request, draws)
    \/ removeToast

Spec == InitApp /\ [][Next]_vars

\* A handler suspended at an await is resumed: its request leaves inflight.
\* The handlers that end in addToast wait for room in the capped toast list;
\* a suggestion whose service call succeeded goes on to its second await
\* (App.tsx:140-147).
settles(request) ==
    /\ request \in inflight
    /\ IF request.op = "suggestion" /\ request.stage = "service"
       THEN \E reply \in AppSuggestionReplies :
               inflight' =
                   IF fetchPortfolioSuggestion(reply).ok
                   THEN (inflight \ {request}) \cup
                            {[op |-> "suggestion", stage |-> "market",
                              data |-> fetchPortfolioSuggestion(reply).data]}
                   ELSE inflight \ {request}
       ELSE /\ Len(toasts) < MaxToasts
            /\ inflight' = inflight \ {request}

\* Every promise a handler awaits settles (the awaited services end in a
\* timer or in a reply of the model), and the timer of a toast fires.  The
\* completions are strongly fair because the cap on toasts disables them
\* from time to time; they are stated on inflight, which every completion
\* changes.
Fairness ==
    /\ \A op \in {"add", "optimize", "suggestion", "link"} :
           SF_inflight(\E request \in inflight : request.op = op /\ settles(request))
    /\ WF_vars(removeToast)

SpecFair == Spec /\ Fairness

(***************************************************************************)
(* Properties of the App component                                         *)
(***************************************************************************)
ActiveAssets == IF activePortfolio = None THEN << >> ELSE activePortfolio[1].portfolio

AddRequests == {request \in inflight : request.op = "add"}

\* C7: in every reachable state no two assets of the active portfolio have
\* the same ticker, compared case-insensitively (every portfolio delivered by
\* the suggestion service and the brokerage link has unique tickers).
C7_ActiveTickersUnique ==
    \A i, j \in DOMAIN ActiveAssets :
        toUpperCase(ActiveAssets[i].ticker) = toUpperCase(ActiveAssets[j].ticker)
            => i = j

\* C8: in every reachable state the allocations of userAddedAssets sum to
\* strictly less than 100, and the check an add passed when it started still
\* holds while its fetch is in flight: the sum plus the allocation it is
\* about to append is strictly less than 100.
C8_UserTotalBelow100 ==
    /\ RLt(SumAlloc(userAddedAssets), Num(100))
    /\ RLt(Num(0), scaleFactor(userAddedAssets))
    /\ \A request \in AddRequests :
          RLt(RAdd(SumAlloc(userAddedAssets), request.allocation), Num(100))

\* Two adds were appended after their fetches and total 99.
C8_Witness ==
    /\ Len(userAddedAssets) = 2
    /\ SumAlloc(userAddedAssets) = Num(99)
    /\ AddRequests = {}

C9_Rejected(ticker, allocation) ==
    \/ trim(ticker) = ""
    \/ ~(/\ ~isNaN(parseFloat(allocation))
         /\ RLt(Num(0), parseFloat(allocation))
         /\ RLt(parseFloat(allocation), Num(100)))
    \/ \E i \in DOMAIN ActiveAssets :
          toUpperCase(ActiveAssets[i].ticker) = toUpperCase(ticker)
    \/ RLe(Num(100), RAdd(SumAlloc(userAddedAssets), parseFloat(allocation)))

\* C9: a submitted add is rejected at once, with an error notification, no
\* request started, isProcessing still false and userAddedAssets unchanged,
\* when the ticker is empty, the allocation is not strictly between 0 and
\* 100, the ticker is already in the active portfolio, or the user-added
\* total plus the allocation is >= 100; in every other case it proceeds to
\* the fetch of the asset's financials with isProcessing set.
C9_AddRejectedOrProceeds ==
    [][\A ticker \in TickerInputs, allocation \in AllocationInputs :
          handleAdd(ticker, allocation) =>
              IF C9_Rejected(ticker, allocation)
              THEN /\ toasts' = Append(toasts, "error")
                   /\ inflight' = inflight
                   /\ isProcessing' = FALSE
                   /\ userAddedAssets' = userAddedAssets
              ELSE /\ inflight' = inflight \cup
                          {[op |-> "add", ticker |-> ticker,
                            allocation |-> parseFloat(allocation)]}
                   /\ inflight' # inflight
                   /\ isProcessing' = TRUE
                   /\ toasts' = toasts
                   /\ userAddedAssets' = userAddedAssets]_vars

\* An add that brings the user-added total to 99 is in flight.
C9_Witness ==
    /\ userAddedAssets # << >>
    /\ isProcessing
    /\ \E request \in AddRequests :
          RAdd(SumAlloc(userAddedAssets), request.allocation) = Num(99)

(***************************************************************************)
(* The market-data refresh effect (App.tsx:292-317)                        *)
(***************************************************************************)
MaxEffects == 2

MaxFetches == 3

\* A portfolio whose asset list is empty: the effect returns at line 295.
EmptyPortfolio ==
    Portfolio("Empty", << >>, "Nothing.", Metrics(Num(0), Num(0), Num(0), Num(1)), << >>)

\* The values the activePortfolio memo takes in the effect's model.
RefreshPortfolios ==
    {None, Some(HighBetaBase), Some(NegativeBetaBase), Some(EmptyPortfolio)}

\* Math.random() in the effect's model: every fetch moves every price.
RefreshRandoms == {R(9, 10)}

appVarsButActivePortfolio ==
    <<mode, suggestionResult, selectedPortfolioIndex, linkedAccount,
      performanceHistory, userAddedAssets, userProfile, isLoading, isProcessing,
      error, toasts, inflight, requests>>

InitRefresh ==
    /\ AppIdle
    /\ MarketIdle
    /\ BlendNone
    /\ OtherIdle

cleanupKeepsInterval(effect) == [effect EXCEPT !.isMounted = FALSE]

cleanupKeepsMounted(effect) == [effect EXCEPT !.interval = FALSE]

\* The cleanup the effect returns (App.tsx:313-316)
cleanup(effect) == [effect EXCEPT !.isMounted = FALSE, !.interval = FALSE]

\* The effect runs after React has run the cleanup it holds.
cleanedEffects ==
    IF effectCleanup = 0 THEN effects
    ELSE [effects EXCEPT ![effectCleanup] = cleanup(@)]

\* fetchAndUpdate up to its await (App.tsx:297-300), called by effect run e.
fetchAndUpdate(e) ==
    /\ fetchesStarted < MaxFetches
    /\ fetchesStarted' = fetchesStarted + 1
    /\ isMarketDataLoading' = TRUE
    /\ refreshFetches' = refreshFetches \cup {[effect |-> e, id |-> fetchesStarted + 1]}

\* The memo yields a new value p and the effect re-runs (App.tsx:292-317):
\* the held cleanup, the two early returns, the first fetchAndUpdate and
\* setInterval.
activePortfolioChanges(p) ==
    /\ mounted
    /\ Len(effects) < MaxEffects
    /\ ~(p = None /\ activePortfolio = None)
    /\ activePortfolio' = p
    /\ IF p = None
       THEN /\ effects' = cleanedEffects
            /\ effectCleanup' = 0
            /\ UNCHANGED <<fetchesStarted, isMarketDataLoading, refreshFetches>>
       ELSE IF Len(Tickers(p[1].portfolio)) = 0
       THEN /\ effects' = cleanedEffects
            /\ effectCleanup' = 0
            /\ UNCHANGED <<fetchesStarted, isMarketDataLoading, refreshFetches>>
       ELSE /\ effects' = Append(cleanedEffects,
                                 [tickers   |-> Tickers(p[1].portfolio),
                                  isMounted |-> TRUE,
                                  interval  |-> TRUE])
            /\ effectCleanup' = Len(effects) + 1
            /\ fetchAndUpdate(Len(effects) + 1)
    /\ UNCHANGED <<marketData, mounted, refreshLog, consoleErrors, priceCache,
                   appVarsButActivePortfolio, marketVars, blendVars, serviceVars>>

\* The 60000 ms interval of effect run e fires (App.tsx:310).
intervalTick(e) ==
    /\ effects[e].interval
    /\ fetchAndUpdate(e)
    /\ UNCHANGED <<marketData, mounted, effects, effectCleanup, refreshLog,
                   consoleErrors, priceCache, appVars, marketVars, blendVars,
                   serviceVars>>

\* finally (App.tsx:305-307)
finallyLoading(fetch) ==
    isMarketDataLoading' =
        IF effects[fetch.effect].isMounted THEN FALSE ELSE isMarketDataLoading

\* The fetch of a fetchAndUpdate call resolves (App.tsx:300-301, 305-307).
fetchResolves(fetch, draws) ==
    LET fetched == fetchMarketData(effects[fetch.effect].tickers, draws, priceCache)
    IN  /\ fetch \in refreshFetches
        /\ priceCache' = fetched.priceCache
        /\ marketData' =
               IF effects[fetch.effect].isMounted THEN fetched.marketData
               ELSE marketData
        /\ finallyLoading(fetch)
        /\ refreshFetches' = refreshFetches \ {fetch}
        /\ refreshLog' = Append(refreshLog,
                                [effect |-> fetch.effect, ok |-> TRUE,
                                 applied |-> effects[fetch.effect].isMounted])
        /\ UNCHANGED <<mounted, effects, effectCleanup, fetchesStarted,
                       consoleErrors, appVars, marketVars, blendVars, serviceVars>>

fetchRejectsClearsData(fetch) ==
    /\ fetch \in refreshFetches
    /\ consoleErrors' = consoleErrors + 1
    /\ marketData' = EmptyMap
    /\ finallyLoading(fetch)
    /\ refreshFetches' = refreshFetches \ {fetch}
    /\ refreshLog' = Append(refreshLog,
                            [effect |-> fetch.effect, ok |-> FALSE,
                             applied |-> FALSE])
    /\ UNCHANGED <<mounted, effects, effectCleanup, fetchesStarted, priceCache,
                   appVars, marketVars, blendVars, serviceVars>>

\* The fetch of a fetchAndUpdate call rejects (App.tsx:302-307): the catch
\* writes one console.error line.  The simulated fetchMarketData of this
\* repository has no failing path; a rejection is what the try/catch is
\* written for, once the service is a real one.
fetchRejects(fetch) ==
    /\ fetch \in refreshFetches
    /\ consoleErrors' = consoleErrors + 1
    /\ finallyLoading(fetch)
    /\ refreshFetches' = refreshFetches \ {fetch}
    /\ refreshLog' = Append(refreshLog,
                            [effect |-> fetch.effect, ok |-> FALSE,
                             applied |-> FALSE])
    /\ UNCHANGED <<marketData, mounted, effects, effectCleanup, fetchesStarted,
                   priceCache, appVars, marketVars, blendVars, serviceVars>>

\* App is unmounted: React runs the cleanup it holds.
unmount ==
    /\ mounted
    /\ mounted' = FALSE
    /\ effects' = cleanedEffects
    /\ effectCleanup' = 0
    /\ UNCHANGED <<marketData, isMarketDataLoading, refreshFetches, fetchesStarted,
                   refreshLog, consoleErrors, priceCache, appVars, marketVars,
                   blendVars, serviceVars>>

NextRefresh ==
    \/ \E p \in RefreshPortfolios : activePortfolioChanges(p)
    \/ \E e \in DOMAIN effects : intervalTick(e)
    \/ \E fetch \in refreshFetches :
          \E draws \in DrawsFor(effects[fetch.effect].tickers, RefreshRandoms) :
             fetchResolves(fetch, draws)
    \/ \E fetch \in refreshFetches : fetchRejects(fetch)
    \/ unmount

SpecRefresh == InitRefresh /\ [][NextRefresh]_vars

\* The effect run React holds the cleanup of is the one of the portfolio shown.
CurrentEffect(e) ==
    /\ e = effectCleanup
    /\ mounted
    /\ activePortfolio # None
    /\ effects[e].tickers = Tickers(activePortfolio[1].portfolio)

\* C11: once the active portfolio has changed or App is unmounted, the
\* interval created for the previous portfolio is cleared (only the current
\* effect run has a live interval and starts fetches), and the displayed
\* market data changes only when a fetch started by the current effect run
\* resolves: a response for a previous portfolio never updates it.
C11_StaleEffectNeverActs ==
    /\ [](\A e \in DOMAIN effects : effects[e].interval => CurrentEffect(e))
    /\ [][/\ \A fetch \in refreshFetches' \ refreshFetches :
                fetch.effect = effectCleanup' /\ mounted'
          /\ marketData' # marketData =>
                \E fetch \in refreshFetches \ refreshFetches' :
                    CurrentEffect(fetch.effect)]_vars

\* A response arrived for an effect run that had been cleaned up and the
\* displayed data was left alone.
C11_Witness ==
    \E k \in DOMAIN refreshLog :
        /\ refreshLog[k].ok
        /\ ~refreshLog[k].applied
        /\ refreshLog[k].effect # effectCleanup
        /\ ~effects[refreshLog[k].effect].interval

\* C12: the step in which a periodic fetch fails leaves the displayed
\* marketData as it was, writes one console.error line, starts no new fetch
\* (no retry before the next tick) and leaves the interval running.
C12_FailedFetchKeepsData ==
    [][(/\ Len(refreshLog') = Len(refreshLog) + 1
        /\ ~refreshLog'[Len(refreshLog')].ok)
       => /\ marketData' = marketData
          /\ consoleErrors' = consoleErrors + 1
          /\ fetchesStarted' = fetchesStarted
          /\ refreshFetches' \subseteq refreshFetches
          /\ effects' = effects
          /\ effectCleanup' = effectCleanup]_vars

\* A fetch failed after an earlier one had delivered data: the data is still
\* shown, nothing is in flight and the interval of the current run is live.
C12_Witness ==
    /\ refreshLog # << >>
    /\ ~refreshLog[Len(refreshLog)].ok
    /\ marketData # EmptyMap
    /\ refreshFetches = {}
    /\ effectCleanup # 0
    /\ effects[effectCleanup].interval

C13_Unusable(reply) ==
    \/ ~reply.json
    \/ reply.primary = None
    \/ reply.alternatives = None
    \/ Len(reply.alternatives[1]) < 2

\* C13: fetchPortfolioSuggestion fails on a response that does not parse,
\* has no primary portfolio or has fewer than two alternatives, and in the
\* step in which that failure reaches handleSuggestion the app records the
\* error message, suggestionResult is null and no portfolio is shown.
C13_FailedSuggestionShowsNothing ==
    [][\A request \in inflight, reply \in AppSuggestionReplies :
          (resolveSuggestionService(request, reply) /\ C13_Unusable(reply))
          => /\ ~fetchPortfolioSuggestion(reply).ok
             /\ error' = Some(fetchPortfolioSuggestion(reply).message)
             /\ suggestionResult' = None
             /\ activePortfolio' = None]_vars

(***************************************************************************)
(* The service functions on free inputs                                    *)
(***************************************************************************)
MaxServiceCalls == 2

hasLossOrEven(a) ==
    /\ a.purchasePrice # None
    /\ a.purchasePrice[1] # Num(0)
    /\ a.marketData # None
    /\ RLe(a.marketData[1].currentPrice, a.purchasePrice[1])

\* The filter of fetchTaxLossHarvestingSuggestions (geminiService.ts:268):
\* a.purchasePrice && a.marketData && a.marketData.currentPrice < a.purchasePrice
hasLoss(a) ==
    /\ a.purchasePrice # None
    /\ a.purchasePrice[1] # Num(0)
    /\ a.marketData # None
    /\ RLt(a.marketData[1].currentPrice, a.purchasePrice[1])

\* geminiService.ts:267-272: the losing assets, each as the ticker and the
\* loss (2 decimals) its prompt line carries.
RECURSIVE assetsWithLoss(_)
assetsWithLoss(portfolio) ==
    IF portfolio = << >> THEN << >>
    ELSE LET a == Head(portfolio)
             loss == RMul(RSub(a.marketData[1].currentPrice, a.purchasePrice[1]),
                          RDiv(a.allocation, Num(100)))
         IN  (IF hasLoss(a)
              THEN <<[ticker |-> a.ticker, loss |-> toFixed2(MathAbs(loss))]>>
              ELSE << >>) \o assetsWithLoss(Tail(portfolio))

\* fetchTaxLossHarvestingSuggestions (geminiService.ts:266-301): prompt is what
\* is sent to the completion service (None: nothing is sent); reply is what
\* the service answers when asked.
fetchTaxLossHarvestingSuggestions(portfolio, reply) ==
    IF assetsWithLoss(portfolio) = << >>
    THEN [prompt |-> None, ok |-> TRUE, result |-> << >>]
    ELSE IF reply.ok
    THEN [prompt |-> Some(assetsWithLoss(portfolio)), ok |-> TRUE,
          result |-> reply.result]
    ELSE [prompt |-> Some(assetsWithLoss(portfolio)), ok |-> FALSE,
          message |-> "Failed to get tax-loss harvesting suggestions."]

\* An asset as the sandbox receives it: with the market data of the refresh
\* (None: not fetched yet) and a purchase price (None: unknown).
Priced(ticker, allocation, currentPrice, purchasePrice) ==
    [Asset(ticker, ticker \o " Inc.", "Technology", Num(allocation), Num(1), Num(8),
           Num(15), "held")
        EXCEPT !.marketData = IF currentPrice = None THEN None
                              ELSE Some(MarketData(currentPrice[1], currentPrice[1])),
               !.purchasePrice = purchasePrice]

TaxLossPortfolios ==
    {<< >>,
     <<Priced("AAPL", 60, Some(Num(150)), Some(Num(200))),
       Priced("BND", 40, Some(Num(80)), Some(Num(76)))>>,
     <<Priced("AAPL", 60, Some(Num(150)), Some(Num(150))),
       Priced("BND", 40, Some(Num(80)), Some(Num(76)))>>,
     <<Priced("AAPL", 60, None, Some(Num(200))),
       Priced("BND", 40, Some(Num(70)), None)>>,
     <<Priced("AAPL", 50, Some(Num(150)), Some(R(3001, 20))),
       Priced("MSFT", 50, Some(Num(290)), Some(Num(300)))>>}

TaxLossReplies ==
    {[ok |-> TRUE,
      result |-> <<[sellTicker |-> "AAPL", replaceWithTicker |-> "VTI"]>>],
     [ok |-> FALSE, result |-> << >>]}

\* Parsed replies of the completion service to the optimization request.
OptimizationResults ==
    {<<OptimizedAllocation("AAPL", Num(60)), OptimizedAllocation("BND", Num(40))>>,
     <<OptimizedAllocation("AAPL", Num(60)), OptimizedAllocation("BND", Num(41))>>,
     <<OptimizedAllocation("AAPL", R(119, 2)), OptimizedAllocation("BND", Num(40))>>,
     <<OptimizedAllocation("AAPL", Num(60)), OptimizedAllocation("BND", Num(42))>>,
     <<OptimizedAllocation("AAPL", Num(30)), OptimizedAllocation("BND", Num(20))>>,
     <<OptimizedAllocation("AAPL", Num(150)), OptimizedAllocation("BND", Num(-30)),
       OptimizedAllocation("TSLA", Num(80))>>,
     << >>}

\* new Date() at the call of fetchPerformanceHistory
TodayInputs ==
    {[day |-> 200, hour |-> 12, zone |-> UTC],
     [day |-> 200, hour |-> 3, zone |-> Tokyo],
     [day |-> 200, hour |-> 12, zone |-> London],
     [day |-> 200, hour |-> 0, zone |-> London],
     [day |-> 200, hour |-> 19, zone |-> NewYork]}

ServiceDraws == {FlatDraws, MovingDraws}

InitService ==
    /\ AppIdle
    /\ MarketIdle
    /\ BlendNone
    /\ OtherIdle

Returned(fn, input, output) ==
    Append(serviceLog, [fn |-> fn, input |-> input, output |-> output])

CallFetchPortfolioSuggestion(reply) ==
    /\ Len(serviceLog) < MaxServiceCalls
    /\ serviceLog' = Returned("fetchPortfolioSuggestion", reply,
                              fetchPortfolioSuggestion(reply))
    /\ UNCHANGED <<appVars, priceCache, marketVars, blendVars, refreshVars>>

CallFetchOptimizedAllocations(result) ==
    /\ Len(serviceLog) < MaxServiceCalls
    /\ serviceLog' = Returned("fetchOptimizedAllocations", result,
                              fetchOptimizedAllocations(result))
    /\ UNCHANGED <<appVars, priceCache, marketVars, blendVars, refreshVars>>

CallFetchTaxLossHarvestingSuggestions(portfolio, reply) ==
    /\ Len(serviceLog) < MaxServiceCalls
    /\ serviceLog' = Returned("fetchTaxLossHarvestingSuggestions",
                              [portfolio |-> portfolio, reply |-> reply],
                              fetchTaxLossHarvestingSuggestions(portfolio, reply))
    /\ UNCHANGED <<appVars, priceCache, marketVars, blendVars, refreshVars>>

\* What fetchPerformanceHistory returns for each catalogued instant and draws
\* (<< >> @@ f is the function f, enumerated once).
ServiceHistories ==
    << >> @@ [input \in TodayInputs \X ServiceDraws |->
                 << >> @@ fetchPerformanceHistory(input[1], input[2])]

CallFetchPerformanceHistory(today, draws) ==
    /\ Len(serviceLog) < MaxServiceCalls
    /\ serviceLog' = Returned("fetchPerformanceHistory",
                              [today |-> today, draws |-> draws],
                              ServiceHistories[<<today, draws>>])
    /\ UNCHANGED <<appVars, priceCache, marketVars, blendVars, refreshVars>>

NextService ==
    \/ \E reply \in SuggestionReplies : CallFetchPortfolioSuggestion(reply)
    \/ \E result \in OptimizationResults : CallFetchOptimizedAllocations(result)
    \/ \E portfolio \in TaxLossPortfolios, reply \in TaxLossReplies :
          CallFetchTaxLossHarvestingSuggestions(portfolio, reply)
    \/ \E today \in TodayInputs, draws \in ServiceDraws :
          CallFetchPerformanceHistory(today, draws)

SpecService == InitService /\ [][NextService]_vars

CallsOf(fn) == {k \in DOMAIN serviceLog : serviceLog[k].fn = fn}

LastCall == serviceLog[Len(serviceLog)]

LastCallIs(fn) == serviceLog # << >> /\ LastCall.fn = fn

\* C14: every suggestion fetchPortfolioSuggestion accepts has a primary and
\* exactly two alternatives, so the app offers exactly three portfolios.
C14_AcceptedHasExactlyTwoAlternatives ==
    \A k \in CallsOf("fetchPortfolioSuggestion") :
        serviceLog[k].output.ok =>
            /\ serviceLog[k].input.primary # None
            /\ Len(serviceLog[k].output.data.alternatives) = 2
            /\ Len(allSuggestedPortfoliosOf(Some(serviceLog[k].output.data))) = 3

\* C15: the allocations fetchOptimizedAllocations returns sum to 100 within
\* 1 point for every response: a response off by more than 1 is rescaled
\* proportionally, one within 1 point is returned unchanged.
C15_OptimizedSumWithinOnePoint ==
    \A k \in CallsOf("fetchOptimizedAllocations") :
        LET result == serviceLog[k].input
            out    == serviceLog[k].output
            total  == SumAlloc(result)
        IN  /\ RLe(MathAbs(RSub(SumAlloc(out), Num(100))), Num(1))
            /\ Len(out) = Len(result)
            /\ \A i \in DOMAIN result :
                  /\ out[i].ticker = result[i].ticker
                  /\ IF RLt(Num(1), MathAbs(RSub(total, Num(100))))
                     THEN RMul(out[i].allocation, total) =
                              RMul(result[i].allocation, Num(100))
                     ELSE out[i].allocation = result[i].allocation

C17_ShowsLoss(a) ==
    /\ a.purchasePrice # None
    /\ a.marketData # None
    /\ RLt(a.marketData[1].currentPrice, a.purchasePrice[1])

\* C17: fetchTaxLossHarvestingSuggestions sends a request to the external
\* service exactly when some asset has a purchase price and market data with
\* currentPrice < purchasePrice; otherwise it returns an empty list.
C17_RequestOnlyOnLoss ==
    \A k \in CallsOf("fetchTaxLossHarvestingSuggestions") :
        LET portfolio == serviceLog[k].input.portfolio
            out       == serviceLog[k].output
            someLoss  == \E i \in DOMAIN portfolio : C17_ShowsLoss(portfolio[i])
        IN  /\ out.prompt # None <=> someLoss
            /\ ~someLoss => (out.ok /\ out.result = << >>)
            /\ someLoss =>
                  {out.prompt[1][i].ticker : i \in DOMAIN out.prompt[1]}
                      = {portfolio[i].ticker : i \in {j \in DOMAIN portfolio :
                                                         C17_ShowsLoss(portfolio[j])}}

\* One call asked the service about a losing asset, another returned the
\* empty list without asking although its portfolio holds priced assets.
C17_Witness ==
    /\ \E k \in CallsOf("fetchTaxLossHarvestingSuggestions") :
          serviceLog[k].output.prompt # None
    /\ \E k \in CallsOf("fetchTaxLossHarvestingSuggestions") :
          /\ serviceLog[k].output.prompt = None
          /\ serviceLog[k].input.portfolio # << >>
          /\ serviceLog[k].output.result = << >>

\* C18: fetchPerformanceHistory returns exactly 181 points, each dated one
\* calendar day after the one before, the last dated today (the date of the
\* call) and the first 180 days earlier.
C18_OnePointPerDay ==
    LastCallIs("fetchPerformanceHistory") =>
        LET history == LastCall.output
            today   == LastCall.input.today
        IN  /\ Len(history) = 181
            /\ \A j \in 1..(Len(history) - 1) :
                  history[j + 1].date = history[j].date + 1
            /\ history[Len(history)].date = toISODate(today.zone, today.day, today.hour)
            /\ history[1].date = toISODate(today.zone, today.day, today.hour) - 180

C19_Factor(u, bias, scale) == RAdd(Num(1), RMul(RSub(u, bias), scale))

C19_Factors(draws) ==
    [portfolioValue    |-> [i \in 0..HistoryDays |->
                               C19_Factor(draws[i].portfolio, R(48, 100), R(15, 1000))],
     benchmarkValue    |-> [i \in 0..HistoryDays |->
                               C19_Factor(draws[i].benchmark, R(49, 100), R(14, 1000))],
     aiSuggestionValue |-> [i \in 0..HistoryDays |->
                               C19_Factor(draws[i].aiSuggestion, R(47, 100), R(16, 1000))]]

\* The cumulative products of the daily factors of one series, from day
\* offset hi down to lo.
RECURSIVE C19_Compound(_, _, _)
C19_Compound(factors, hi, lo) ==
    IF hi = lo
    THEN <<factors[hi]>>
    ELSE LET mid   == (hi + lo + 1) \div 2
             first == C19_Compound(factors, hi, mid)
             rest  == C19_Compound(factors, mid - 1, lo)
         IN  first \o [k \in 1..Len(rest) |-> RMul(first[Len(first)], rest[k])]

C19_Series == {"portfolioValue", "benchmarkValue", "aiSuggestionValue"}

\* For each catalogued draws and series, 100,000 times the product of the
\* factors up to each day, rounded to 2 decimals.
C19_RoundedGrowth ==
    [draws \in ServiceDraws |->
        [series \in C19_Series |->
            LET growth == C19_Compound(C19_Factors(draws)[series], HistoryDays, 0)
            IN  [j \in 1..Len(growth) |-> toFixed2(RMul(Num(100000), growth[j]))]]]

\* C19 as stated: each day's values are rounded to 2 decimals and the walk
\* continues from the rounded value, so a recorded value is the rounding of
\* the previous recorded value times the day's factor.
C19_WalkContinuesFromRounded ==
    LastCallIs("fetchPerformanceHistory") =>
        LET history == LastCall.output
            factors == C19_Factors(LastCall.input.draws)
        IN  \A series \in C19_Series :
                /\ history[1][series] =
                       toFixed2(RMul(Num(100000), factors[series][HistoryDays]))
                /\ \A j \in 2..Len(history) :
                       history[j][series] =
                           toFixed2(RMul(history[j - 1][series],
                                         factors[series][HistoryDays - (j - 1)]))

\* C19 amended: the values are rounded to 2 decimals only when recorded; the
\* walk continues from the unrounded value, so the value recorded for a day
\* is the rounding of 100,000 times the product of all factors so far.
C19_RecordedRoundsUnroundedWalk ==
    LastCallIs("fetchPerformanceHistory") =>
        LET history == LastCall.output
            rounded == C19_RoundedGrowth[LastCall.input.draws]
        IN  \A series \in C19_Series :
                /\ Len(history) = Len(rounded[series])
                /\ \A j \in 1..Len(history) :
                       history[j][series] = rounded[series][j]

\* A history in which continuing from the rounded value of the day before
\* would have recorded a different value.
C19_Witness ==
    /\ LastCallIs("fetchPerformanceHistory")
    /\ \E j \in 2..Len(LastCall.output) :
          LastCall.output[j].portfolioValue #
              toFixed2(RMul(LastCall.output[j - 1].portfolioValue,
                            C19_Factors(LastCall.input.draws).portfolioValue[HistoryDays - (j - 1)]))

C16_Matches(optimizedAllocs, ticker) ==
    {k \in DOMAIN optimizedAllocs :
        toUpperCase(optimizedAllocs[k].ticker) = toUpperCase(ticker)}

\* The allocation the service returned for the asset's ticker (the last one
\* if it returned several), or the asset's previous allocation.
C16_AllocationAfter(asset, optimizedAllocs) ==
    LET matches == C16_Matches(optimizedAllocs, asset.ticker)
    IN  IF matches = {}
        THEN asset.allocation
        ELSE optimizedAllocs[CHOOSE k \in matches : \A l \in matches : l <= k].allocation

\* C16: when an optimization succeeds, the portfolio it stores has exactly
\* the tickers of the active portfolio the optimization started from, in the
\* same order; tickers the service added are ignored and tickers it left out
\* keep their previous allocation.
C16_OptimizeKeepsTickers ==
    [][\A request \in inflight :
          request.op = "optimize" =>
              \A reply \in OptimizationReplies(request.activePortfolio.portfolio) :
                  (reply.ok /\ resolveOptimize(request, reply)) =>
                      LET before          == request.activePortfolio.portfolio
                          optimizedAllocs == fetchOptimizedAllocations(reply.result)
                      IN  IF request.mode = "suggestion"
                          THEN LET stored ==
                                       allSuggestedPortfoliosOf(suggestionResult')
                                           [request.selectedPortfolioIndex + 1].portfolio
                               IN  /\ Tickers(stored) = Tickers(before)
                                   /\ \A i \in DOMAIN before :
                                         stored[i].allocation =
                                             C16_AllocationAfter(before[i], optimizedAllocs)
                          ELSE LET holdings == linkedAccount'[1].holdings
                               IN  /\ Tickers(holdings) = Tickers(before)
                                   /\ \A i \in DOMAIN before :
                                         holdings[i].value =
                                             RMul(request.linkedAccount[1].totalValue,
                                                  RDiv(C16_AllocationAfter(before[i],
                                                                           optimizedAllocs),
                                                       Num(100)))
      ]_vars

\* The primary portfolio after an optimization of AAPL, BND and the added
\* MSFT whose reply named AAPL and TSLA only: BND and MSFT kept their
\* allocations and TSLA was not added.
C16_Witness ==
    /\ suggestionResult # None
    /\ userAddedAssets = << >>
    /\ suggestionResult[1].primary.title = PrimaryPortfolio.title \o " (Optimized)"
    /\ Tickers(suggestionResult[1].primary.portfolio) = <<"AAPL", "BND", "MSFT">>
    /\ [i \in 1..3 |-> suggestionResult[1].primary.portfolio[i].allocation]
           = <<Num(60), R(102, 5), Num(49)>>

\* C20: while an optimization request is in flight (it is pending before and
\* after the step), no other sandbox mutation is applied: no reset, no
\* further optimization, no asset added or submitted.
C20_NoMutationWhileRequestInFlight ==
    [][(\E pending \in inflight : pending.op = "optimize" /\ pending \in inflight') =>
          /\ ~handleResetPortfolio
          /\ ~(\E goal \in OptimizationGoals : handleOptimizePortfolio(goal))
          /\ ~(\E request \in inflight' \ inflight : request.op = "add")
          /\ ~(\E request \in AddRequests, u \in FinancialsDraws :
                  resolveAddStock(request, u))
      ]_vars

\* The step in which the handler that issued `request` resumes with the
\* failure of its external call.
C21_RequestFails(request) ==
    \/ request.op = "add" /\ rejectAddStock(request)
    \/ /\ request.op = "optimize"
       /\ \E reply \in OptimizationReplies(request.activePortfolio.portfolio) :
             ~reply.ok /\ resolveOptimize(request, reply)

\* C21: when the call of an add or optimize request fails, the handler that
\* issued it turns the failure into an error notification, releases
\* isProcessing and leaves userAddedAssets, suggestionResult and
\* linkedAccount as they were.
C21_FailureOnlyNotifies ==
    [][\A request \in inflight :
          C21_RequestFails(request) =>
              /\ toasts' = Append(toasts, "error")
              /\ userAddedAssets' = userAddedAssets
              /\ suggestionResult' = suggestionResult
              /\ linkedAccount' = linkedAccount
              /\ activePortfolio' = activePortfolio
              /\ isProcessing' = FALSE
              /\ request \notin inflight'
      ]_vars

\* The state a failed add or optimize leaves after a link and one added
\* asset: the asset is still in the sandbox, the account is as linked, the
\* error is shown and the sandbox is enabled again.
C21_Witness ==
    /\ mode = "live"
    /\ linkedAccount = Some(simulateLinkBrokerageAccount)
    /\ Len(userAddedAssets) = 1
    /\ requests = 3
    /\ toasts = <<"error">>
    /\ ~isProcessing
    /\ inflight = {}

\* C23: in every reachable state the allocations of the active portfolio sum
\* to 100 within 1 point (every portfolio the suggestion service and the
\* brokerage link deliver in this model sums to 100).
C23_ActiveSumsTo100 ==
    activePortfolio # None =>
        RLe(MathAbs(RSub(SumAlloc(ActiveAssets), Num(100))), Num(1))

\* C24: a successful optimize empties userAddedAssets and stores the
\* optimized combined list, user-added assets included, as the new base with
\* no asset marked user-added: in suggestion mode as the selected portfolio,
\* its title suffixed " (Optimized)"; in live mode as holdings valued
\* totalValue * allocation / 100.
C24_OptimizedListBecomesBase ==
    [][\A request \in inflight :
          request.op = "optimize" =>
              \A reply \in OptimizationReplies(request.activePortfolio.portfolio) :
                  (reply.ok /\ resolveOptimize(request, reply)) =>
                      LET before          == request.activePortfolio.portfolio
                          optimizedAllocs == fetchOptimizedAllocations(reply.result)
                          index           == request.selectedPortfolioIndex + 1
                      IN  /\ userAddedAssets' = << >>
                          /\ \E i \in DOMAIN before : before[i].isUserAdded = Some(TRUE)
                          /\ IF request.mode = "suggestion"
                             THEN LET stored == allSuggestedPortfoliosOf(suggestionResult')[index]
                                      old    == allSuggestedPortfoliosOf(request.suggestionResult)[index]
                                  IN  /\ stored.title = old.title \o " (Optimized)"
                                      /\ Len(stored.portfolio) = Len(before)
                                      /\ \A i \in DOMAIN stored.portfolio :
                                            stored.portfolio[i].isUserAdded = Some(FALSE)
                                      /\ linkedAccount' = linkedAccount
                             ELSE LET holdings == linkedAccount'[1].holdings
                                      total    == request.linkedAccount[1].totalValue
                                      shown    == livePortfolio(linkedAccount'[1]).portfolio
                                  IN  /\ Len(holdings) = Len(before)
                                      /\ linkedAccount'[1].totalValue = total
                                      /\ \A i \in DOMAIN holdings :
                                            /\ RMul(holdings[i].value, Num(100)) =
                                                   RMul(total,
                                                        C16_AllocationAfter(before[i],
                                                                            optimizedAllocs))
                                            /\ shown[i].isUserAdded # Some(TRUE)
                                      /\ suggestionResult' = suggestionResult
      ]_vars

\* The linked account after an optimization that included the added NVDA:
\* NVDA is a holding like the five linked ones and the sandbox is empty.
C24_Witness ==
    /\ mode = "live"
    /\ linkedAccount # None
    /\ userAddedAssets = << >>
    /\ Len(linkedAccount[1].holdings) = 6
    /\ linkedAccount[1].holdings[6].ticker = "NVDA"
    /\ activePortfolio # None
    /\ \A i \in DOMAIN ActiveAssets : ActiveAssets[i].isUserAdded # Some(TRUE)

LiveTimers == {e \in DOMAIN effects : effects[e].interval}

\* C25: in every reachable state at most one refresh timer is live, and one
\* is live exactly when App is mounted and shows an active portfolio with at
\* least one ticker; a step that creates a timer leaves every earlier timer
\* cleared.
C25_OneTimerWhileShown ==
    /\ [](/\ Cardinality(LiveTimers) <= 1
          /\ LiveTimers # {} <=>
                 (/\ mounted
                  /\ activePortfolio # None
                  /\ activePortfolio[1].portfolio # << >>))
    /\ [][\A e \in DOMAIN effects' :
             (e \notin DOMAIN effects /\ effects'[e].interval) =>
                 \A d \in DOMAIN effects : ~effects'[d].interval]_vars

\* The portfolio shown was replaced by another: the first timer is cleared,
\* the second is live.
C25_Witness ==
    /\ Len(effects) = 2
    /\ ~effects[1].interval
    /\ effects[2].interval
    /\ effects[1].tickers # effects[2].tickers
    /\ mounted

\* C30: isMarketDataLoading is true only while a refresh started for the
\* portfolio now shown is in flight.
C30_LoadingOnlyWhileRefreshing ==
    isMarketDataLoading =>
        \E fetch \in refreshFetches : CurrentEffect(fetch.effect)

SandboxRequests == {request \in inflight : request.op \in {"add", "optimize"}}

\* C29: at most one sandbox request (add or optimize) is in flight at any
\* time, and isProcessing is true exactly while one is in flight.
C29_OneSandboxRequest ==
    /\ Cardinality(SandboxRequests) <= 1
    /\ isProcessing <=> SandboxRequests # {}

\* An optimization is in flight, started after an add had completed, while
\* a new suggestion is being fetched as well.
C29_Witness ==
    /\ isProcessing
    /\ isLoading
    /\ \E request \in SandboxRequests : request.op = "optimize"
    /\ Cardinality(inflight) = 2

C28_AsDelivered(p) ==
    [p EXCEPT !.portfolio =
        [i \in 1..Len(p.portfolio) |-> [p.portfolio[i] EXCEPT !.purchasePrice = None]]]

C28_Delivered ==
    {C28_AsDelivered(livePortfolio(simulateLinkBrokerageAccount))} \cup
    UNION {{C28_AsDelivered(allSuggestedPortfoliosOf(
                Some(fetchPortfolioSuggestion(reply).data))[i]) :
               i \in 1..(1 + Len(fetchPortfolioSuggestion(reply).data.alternatives))} :
           reply \in {r \in AppSuggestionReplies : fetchPortfolioSuggestion(r).ok}}

C28_ResetStep ==
    /\ inflight = {}
    /\ isSandboxMode
    /\ userAddedAssets' = << >>
    /\ toasts' = Append(toasts, "info")

\* C28: after Reset with no request in flight, the active portfolio is the
\* portfolio that the suggestion service or the brokerage link delivered:
\* title, assets, allocations and strategy as delivered (the purchase prices,
\* which the App simulates after delivery, are left out of the comparison),
\* whatever adds and optimizations came before.
C28_ResetRestoresDelivered ==
    [][C28_ResetStep =>
          /\ activePortfolio' # None
          /\ C28_AsDelivered(activePortfolio'[1]) \in C28_Delivered]_vars

\* A sandbox request completes while the request of a new session is still
\* loading.  The request was started before the new session: handleSuggestion
\* and handleLinkAccount remove the displayed portfolio, without which no add
\* and no optimization can start.
C27_EarlierRequestCompletes ==
    /\ isLoading
    /\ \E request \in SandboxRequests : request \notin inflight'

C26_BusyFlagsReleased ==
    /\ isLoading ~> ~isLoading
    /\ isProcessing ~> ~isProcessing

\* A suggestion request has failed, the third request of the run: both flags
\* are released and nothing is in flight, so the form can be submitted again.
C26_Witness ==
    /\ error # None
    /\ ~isLoading
    /\ ~isProcessing
    /\ inflight = {}
    /\ linkedAccount = None
    /\ requests >= 3

====
